---------------------------- MODULE Spec2Model ----------------------------
(***************************************************************************)
(* Status board server (src/server.js over src/redis-dal.js): the update   *)
(* path POST /api/update-status, the SSE observer registry of              *)
(* GET /api/updates, the lazily loaded embedding model, and the shared     *)
(* 'updates' channel of the backing store.                                 *)
(*                                                                         *)
(* Every await of the source is a step boundary: a request handler is a    *)
(* small process whose position is req[r].pc, and the code between two     *)
(* awaits is one atomic action (JavaScript runs it to completion).         *)
(* Every call into the store, the model or an observer's stream can fail.  *)
(*                                                                         *)
(* Further specifications model the other servers of the repository: the   *)
(* workshop server and its data layer (src/guide.md, src/unnamed), the map *)
(* query, and the server that subscribes once per observer.                *)
(***************************************************************************)
EXTENDS Integers, Sequences, FiniteSets, TLC

\* ------------------------------------------------------------------ bounds
MaxRequests  == 2      \* update requests issued in one behaviour
MaxObservers == 2      \* SSE connections opened in one behaviour
MaxExternal  == 1      \* messages another process publishes on 'updates'

MaxConnects  == 2      \* connect-test calls made to the workshop server
MaxReads     == 1      \* connect-test, list-users and users-on-map calls to server.js
MaxNameLen   == 2      \* characters of a prefix or username whose key is parsed
MaxReplies   == 2      \* SCAN replies the store gives to one scanKeys call
MaxBatchLen  == 2      \* keys in one SCAN reply

Reqs      == 1..MaxRequests
Connects  == 1..MaxConnects
Reads     == 1..MaxReads
Observers == 1..MaxObservers

\* ------------------------------------------------------------------ inputs
NoValue == "undefined"                 \* a body field that is absent

StatusInputs   == {"green", "yellow", NoValue}
UsernameInputs == {"redisboard-a", NoValue}        \* body.myUsername
MessageInputs  == {"", "coffee"}                   \* body.message
\* (the requests modelled here carry no longitude/latitude: the location
\* branches of the handler and of updateUserStatus are not taken)
Principals     == {"redisboard-a"}                 \* body.username (credentials)

Inputs ==
  [username : Principals, myUsername : UsernameInputs,
   status : StatusInputs, message : MessageInputs]

\* ------------------------------------------------ pure functions of the code
allowedStatuses == {"red", "green", "purple"}

\* !x for a body field: absent and the empty string are both falsy
Falsy(x) == x = NoValue \/ x = ""

\* a handler that forgets the enum check
ValidateWithoutEnum(in) ==
  IF Falsy(in.myUsername) \/ Falsy(in.status) THEN "missing" ELSE "valid"

\* the two early returns of the handler, in their order
Validate(in) ==
  IF Falsy(in.myUsername) \/ Falsy(in.status) THEN "missing"
  ELSE IF in.status \notin allowedStatuses THEN "invalid"
  ELSE "valid"

extractPrefix(username) ==
  CASE username = "redisboard-a" -> "a"
    [] username = "redisboard-b" -> "b"
    [] OTHER -> username

getStatusText(status) ==
  CASE status = "red"    -> "Busy"
    [] status = "green"  -> "Available"
    [] status = "purple" -> "Away"
    [] OTHER             -> "Unknown"

getUserKey(username, prefix) == <<"status", prefix, username>>

\* String.prototype.trim over the message inputs
trim(m) == IF m = "  " THEN "" ELSE m

\* a guard that tests the message without trimming it
IsBlankUntrimmed(m) == Falsy(m)

\* !statusMessage || statusMessage.trim() === ''
IsBlank(m) == Falsy(m) \/ trim(m) = ""

\* message || ''
MessageOrEmpty(m) == IF Falsy(m) THEN "" ELSE m

\* JSON null in a request body
Null == "null"

\* a field of the request body, undefined when the body does not have it
Field(in, f) == IF f \in DOMAIN in THEN in[f] ELSE NoValue

\* longitude !== undefined && latitude !== undefined
HasCoordinates(in) ==
  Field(in, "longitude") # NoValue /\ Field(in, "latitude") # NoValue

\* parseFloat over the coordinate inputs: a number keeps its digits, null
\* and text that is no number give NaN
parseFloat(x) ==
  CASE x = "34.8" -> "34.8"
    [] x = "32.1" -> "32.1"
    [] x = "35"   -> "35"
    [] x = "35.0" -> "35"
    [] x = "31"   -> "31"
    [] x = "0"    -> "0"
    [] OTHER      -> "NaN"

\* a point literal with the latitude first
PointLatitudeFirst(longitude, latitude) ==
  <<"POINT", parseFloat(latitude), parseFloat(longitude)>>

\* `POINT(${longitude} ${latitude})`, by its parts
Point(longitude, latitude) ==
  <<"POINT", parseFloat(longitude), parseFloat(latitude)>>

\* the value of a decimal numeral, in tenths of a degree
Tenths(n) ==
  CASE n = "0"  -> 0
    [] n = "29" -> 290
    [] n = "31" -> 310
    [] n = "32.1" -> 321
    [] n = "33" -> 330
    [] n = "34" -> 340
    [] n = "34.8" -> 348
    [] n = "35" -> 350
    [] n = "36" -> 360
    [] n = "-1" -> 0 - 10
    [] n = "1"  -> 10

Numerals ==
  {"0", "29", "31", "32.1", "33", "34", "34.8", "35", "36", "-1", "1"}

\* the boundary files: features[0].geometry.coordinates[0] is a closed ring
\* of [longitude, latitude] pairs
Boundaries ==
  [country |-> <<<<"34", "29">>, <<"36", "29">>, <<"36", "33">>,
                 <<"34", "33">>, <<"34", "29">>>>,
   meridian |-> <<<<"-1", "29">>, <<"1", "29">>, <<"1", "33">>,
                  <<"-1", "33">>, <<"-1", "29">>>>]

\* a conversion that writes each vertex latitude first
geojsonToWKTLatitudeFirst(coords) ==
  <<"POLYGON", [i \in DOMAIN coords |-> <<coords[i][2], coords[i][1]>>]>>

\* coords.map(([lon, lat]) => `${lon} ${lat}`).join(', ') in POLYGON((...))
geojsonToWKT(coords) ==
  <<"POLYGON", [i \in DOMAIN coords |-> <<coords[i][1], coords[i][2]>>]>>

\* the store reads a WKT literal as x then y
WktVertex(tokens) == <<Tenths(tokens[1]), Tenths(tokens[2])>>

\* a POINT literal the store can index: both coordinates are numbers
ValidPoint(location) ==
  /\ Len(location) = 3
  /\ location[1] = "POINT"
  /\ location[2] \in Numerals
  /\ location[3] \in Numerals

\* the edge from a to b crosses the ray that leaves p towards greater x
Crosses(p, a, b) ==
  /\ (a[2] > p[2]) # (b[2] > p[2])
  /\ LET lhs == (p[1] - a[1]) * (b[2] - a[2])
         rhs == (p[2] - a[2]) * (b[1] - a[1])
     IN IF b[2] > a[2] THEN lhs < rhs ELSE lhs > rhs

\* WITHIN: the point is inside the ring when the ray crosses it an odd
\* number of times
Inside(p, ring) ==
  Cardinality({i \in 1..(Len(ring) - 1) : Crosses(p, ring[i], ring[i + 1])}) % 2 = 1

\* a description that looks at the message before the coordinates
updateMessageMessageFirst(in) ==
  IF ~Falsy(in.message)
    THEN [tpl |-> "status_message", user |-> in.myUsername,
          text |-> getStatusText(in.status), message |-> in.message]
  ELSE IF HasCoordinates(in)
    THEN [tpl |-> "location", user |-> in.myUsername, text |-> "",
          message |-> ""]
    ELSE [tpl |-> "status", user |-> in.myUsername,
          text |-> getStatusText(in.status), message |-> ""]

\* the template chosen for the change description
updateMessage(in) ==
  IF HasCoordinates(in)
    THEN [tpl |-> "location", user |-> in.myUsername, text |-> "",
          message |-> ""]
  ELSE IF Falsy(in.message)
    THEN [tpl |-> "status", user |-> in.myUsername,
          text |-> getStatusText(in.status), message |-> ""]
    ELSE [tpl |-> "status_message", user |-> in.myUsername,
          text |-> getStatusText(in.status), message |-> in.message]

\* HSET: the given fields overwrite, the other fields of the hash stay
EmptyHash == [f \in {} |-> ""]
hSet(hash, value) ==
  [f \in (DOMAIN hash) \cup (DOMAIN value) |->
     IF f \in DOMAIN value THEN value[f] ELSE hash[f]]

\* the sentence embedding of a text, as a point on a line
Embedding(text) ==
  CASE text = "coffee" -> 2
    [] text = "house"  -> 7
    [] OTHER           -> 5

\* the icon indexes the loading notebook has filled, by name: tenant a's holds
\* two icons, tenant b's was created and is empty, no other tenant has one
IconIndexes ==
  [a_lucide_icon_index |-> {[name |-> "coffee", embedding |-> 1],
                            [name |-> "home",   embedding |-> 8]},
   b_lucide_icon_index |-> {}]

\* an index name that does not depend on the prefix
SharedIndexName(prefix) == "a_lucide_icon_index"

\* `${prefix}_lucide_icon_index`
IndexName(prefix) ==
  CASE prefix = "a" -> "a_lucide_icon_index"
    [] prefix = "b" -> "b_lucide_icon_index"
    [] OTHER        -> "guest_lucide_icon_index"

Distance(v, w) == IF v < w THEN w - v ELSE v - w

\* *=>[KNN k @embedding $vector AS score] SORTBY score: the k documents
\* nearest to the vector, nearest first
RECURSIVE KNN(_, _, _)
KNN(docs, vector, k) ==
  IF k = 0 \/ docs = {} THEN <<>>
  ELSE LET best == CHOOSE d \in docs :
                     \A e \in docs : Distance(d.embedding, vector)
                                        <= Distance(e.embedding, vector)
       IN <<best>> \o KNN(docs \ {best}, vector, k - 1)

\* the reply of FT.SEARCH for a query [index, vector, k]
vectorSearch(query) ==
  LET documents == KNN(IconIndexes[query.index], query.vector, query.k)
  IN [total |-> Len(documents), documents |-> documents]

\* every principal and every username a request of any specification names
AllPrincipals == {"redisboard-a", "redisboard-b", "guest"}
AllUsernames  == {"redisboard-a", "redisboard-b"}

Keys == {getUserKey(u, extractPrefix(p)) : u \in AllUsernames, p \in AllPrincipals}

\* ------------------------------------------------------------------- state
VARIABLES
  store,           \* the hashes of the backing store, by key
  topic,           \* what was published on channel 'updates', in order
  sseClients,      \* the Set of server.js:18, in insertion order
  obs,             \* each SSE connection: "new", "open" or "closed"
  received,        \* what was written to each SSE stream, in order
  embeddingModel,  \* server.js:30, 0 is null, n is the n-th loaded instance
  loads,           \* number of times pipeline() was invoked
  external,        \* number of messages published by another process
  nextReq,         \* number of update requests that have arrived
  req,             \* the handler invocation of each update request
  hub,             \* workshop server: the module state of its redis-dal.js
  ct               \* workshop server: each POST /api/connect-test invocation

vars == <<store, topic, sseClients, obs, received, embeddingModel, loads,
          external, nextReq, req, hub, ct>>

\* no FT.SEARCH was issued
NoQuery == [index |-> NoValue, vector |-> 0, k |-> 0]

IdleReq ==
  [pc |-> "idle", in |-> NoValue, client |-> "none", icon |-> NoValue,
   model |-> 0, query |-> NoQuery, iconError |-> FALSE, persisted |-> FALSE, published |-> FALSE,
   users |-> {},
   wrote |-> {}, fanned |-> {},
   targets |-> <<>>, threw |-> 0, resp |-> "none", failedAt |-> "none"]

\* redis-dal.js of the workshop server keeps its clients in module globals
IdleHub ==
  [client |-> "null",            \* let client = null
   clientOwner |-> 0,            \* the connect-test call that created it
   subscriberClient |-> "null",  \* let subscriberClient = null
   subscriberConns |-> 0,        \* connections opened by client.duplicate()
   handlers |-> 0,               \* listeners registered on 'updates'
   earlySubscribe |-> FALSE,     \* SUBSCRIBE was issued before the connect resolved
   inbox |-> <<>>,               \* messages pushed to the subscriber, not yet handled
   cachedPrefix |-> NoValue,     \* let cachedPrefix = null
   \* the server that subscribes once per observer (part_000 576-805)
   subscribers |-> {},           \* const subscribers = new Map(): its keys
   conn |-> [o \in Observers |-> "null"],  \* the observer's subscriberClient
   gone |-> {},                  \* observers whose connection has closed
   pending |-> [o \in Observers |-> <<>>]] \* pushed to the observer's
                                 \* subscriber, callback not yet run

IdleCt == [pc |-> "idle", username |-> NoValue, resp |-> "none"]

Init ==
  /\ hub = IdleHub
  /\ ct = [c \in Connects |-> IdleCt]
  /\ store = [k \in Keys |-> EmptyHash]
  /\ topic = <<>>
  /\ sseClients = <<>>
  /\ obs = [o \in Observers |-> "new"]
  /\ received = [o \in Observers |-> <<>>]
  /\ embeddingModel = 0
  /\ loads = 0
  /\ external = 0
  /\ nextReq = 0
  /\ req = [r \in Reqs |-> IdleReq]

Range(s) == {s[i] : i \in DOMAIN s}
Remove(s, x) == SelectSeq(s, LAMBDA y : y # x)

Set(r, fields) == req' = [req EXCEPT ![r] = fields]

\* --------------------------------------------- POST /api/update-status
\* the request arrives: the two validation returns, else createRedisConnection
UpdateStart(r, in) ==
  /\ req[r].pc = "idle"
  /\ r = nextReq + 1
  /\ nextReq' = r
  /\ LET v == Validate(in) IN
       IF v # "valid"
         THEN Set(r, [req[r] EXCEPT !.pc = "done", !.in = in, !.resp = v,
                                    !.failedAt = "validate"])
         ELSE Set(r, [req[r] EXCEPT !.pc = "connect", !.in = in])
  /\ UNCHANGED <<store, topic, sseClients, obs, received, embeddingModel,
                 loads, external, hub, ct>>

\* getEmbeddingModel: the instance is loaded when the global is still null
NeedsLoad(model) == model = 0

\* server.js derives the prefix from the credentials' username, the workshop
\* server takes it from the request body
ReqPrefix(r) ==
  IF "prefix" \in DOMAIN req[r].in THEN req[r].in.prefix
  ELSE extractPrefix(req[r].in.username)

\* a handler that broadcasts the change before it writes the record
ConnectedAnnounces(r) ==
  /\ req[r].pc = "connect"
  /\ IF ~IsBlank(req[r].in.message)
       THEN IF NeedsLoad(embeddingModel)
              THEN /\ loads' = loads + 1
                   /\ Set(r, [req[r] EXCEPT !.pc = "load", !.client = "open",
                                            !.model = loads + 1])
              ELSE /\ loads' = loads
                   /\ Set(r, [req[r] EXCEPT !.pc = "embed", !.client = "open",
                                            !.model = embeddingModel])
       ELSE /\ loads' = loads
            /\ Set(r, [req[r] EXCEPT !.pc = "persist", !.client = "open",
                                     !.icon = "circle"])
  /\ received' = [o \in Observers |->
                    IF o \in Range(sseClients)
                      THEN Append(received[o],
                                  [type |-> "update",
                                   message |-> updateMessage(req[r].in),
                                   src |-> r])
                      ELSE received[o]]
  /\ UNCHANGED <<store, topic, sseClients, obs, embeddingModel,
                 external, nextReq, hub, ct>>

\* the connection is up; updateUserStatus runs to its first await
Connected(r) ==
  /\ req[r].pc = "connect"
  /\ IF ~IsBlank(req[r].in.message)
       THEN IF NeedsLoad(embeddingModel)
              THEN /\ loads' = loads + 1
                   /\ Set(r, [req[r] EXCEPT !.pc = "load", !.client = "open",
                                            !.model = loads + 1])
              ELSE /\ loads' = loads
                   /\ Set(r, [req[r] EXCEPT !.pc = "embed", !.client = "open",
                                            !.model = embeddingModel])
       ELSE /\ loads' = loads
            /\ Set(r, [req[r] EXCEPT !.pc = "persist", !.client = "open",
                                     !.icon = "circle"])
  /\ UNCHANGED <<store, topic, sseClients, obs, received, embeddingModel,
                 external, nextReq, hub, ct>>

\* createRedisConnection throws: client is still undefined in the catch
ConnectFailed(r) ==
  /\ req[r].pc = "connect"
  /\ Set(r, [req[r] EXCEPT !.pc = "done", !.resp = "error",
                           !.failedAt = "connect"])
  /\ UNCHANGED <<store, topic, sseClients, obs, received, embeddingModel,
                 loads, external, nextReq, hub, ct>>

\* pipeline() resolves: the global is assigned the instance this call loaded
LoadDone(r) ==
  /\ req[r].pc = "load"
  /\ embeddingModel' = req[r].model
  /\ Set(r, [req[r] EXCEPT !.pc = "embed"])
  /\ UNCHANGED <<store, topic, sseClients, obs, received, loads, external,
                 nextReq, hub, ct>>

\* searchBestIcon returns to updateUserStatus, which goes on to setHash; a
\* direct call of searchBestIcon returns to its caller
Direct(r) == req[r].pc # "idle" /\ "direct" \in DOMAIN req[r].in
IsUpdate(r) == req[r].pc # "idle" /\ ~Direct(r)
AfterIcon(r) == IF Direct(r) THEN "done" ELSE "persist"

\* a searchBestIcon without its try/catch: the throw reaches the handler
IconFailedRaises(r, at) ==
  /\ req[r].pc = at
  /\ Set(r, [req[r] EXCEPT !.pc = "catchclose", !.failedAt = at])
  /\ UNCHANGED <<store, topic, sseClients, obs, received, embeddingModel,
                 loads, external, nextReq, hub, ct>>

\* a throw inside searchBestIcon is caught there: the icon is the default
IconFailed(r, at) ==
  /\ req[r].pc = at
  /\ Set(r, [req[r] EXCEPT !.pc = AfterIcon(r), !.icon = "circle",
                           !.iconError = TRUE])
  /\ UNCHANGED <<store, topic, sseClients, obs, received, embeddingModel,
                 loads, external, nextReq, hub, ct>>

\* a loader that keeps what the failed load left behind in the global
LoadFailedCached(r) ==
  /\ req[r].pc = "load"
  /\ embeddingModel' = req[r].model
  /\ Set(r, [req[r] EXCEPT !.pc = AfterIcon(r), !.icon = "circle",
                           !.iconError = TRUE])
  /\ UNCHANGED <<store, topic, sseClients, obs, received,
                 loads, external, nextReq, hub, ct>>

LoadFailed(r)   == IconFailed(r, "load")
EmbedFailed(r)  == IconFailed(r, "embed")
SearchFailed(r) == IconFailed(r, "search")

\* model(text) resolves, vectorSearch is issued
Embedded(r) ==
  /\ req[r].pc = "embed"
  /\ Set(r, [req[r] EXCEPT !.pc = "search",
                           !.query = [index  |-> IndexName(ReqPrefix(r)),
                                      vector |-> Embedding(req[r].in.message),
                                      k      |-> 1]])
  /\ UNCHANGED <<store, topic, sseClients, obs, received, embeddingModel,
                 loads, external, nextReq, hub, ct>>

\* a searchBestIcon that takes the first document without looking at total
SearchedNoFallback(r) ==
  /\ req[r].pc = "search"
  /\ req[r].query.index \in DOMAIN IconIndexes
  /\ LET searchResults == vectorSearch(req[r].query)
     IN Set(r, [req[r] EXCEPT !.pc = AfterIcon(r),
                  !.icon = IF Len(searchResults.documents) > 0
                             THEN searchResults.documents[1].name
                             ELSE NoValue])
  /\ UNCHANGED <<store, topic, sseClients, obs, received, embeddingModel,
                 loads, external, nextReq, hub, ct>>

\* FT.SEARCH answers (it throws when the index does not exist): the first
\* document's name, or the default
Searched(r) ==
  /\ req[r].pc = "search"
  /\ req[r].query.index \in DOMAIN IconIndexes
  /\ LET searchResults == vectorSearch(req[r].query)
     IN Set(r, [req[r] EXCEPT !.pc = AfterIcon(r),
                  !.icon = IF searchResults.total > 0
                              /\ Len(searchResults.documents) > 0
                             THEN searchResults.documents[1].name
                             ELSE "circle"])
  /\ UNCHANGED <<store, topic, sseClients, obs, received, embeddingModel,
                 loads, external, nextReq, hub, ct>>

\* a value whose icon has no default: without a message it is undefined,
\* which setHash writes as the text 'undefined'
StatusValueWithoutDefault(r) ==
  LET value == [status |-> req[r].in.status,
                message |-> MessageOrEmpty(req[r].in.message),
                icon |-> IF IsBlank(req[r].in.message) THEN NoValue
                         ELSE req[r].icon]
  IN IF HasCoordinates(req[r].in)
       THEN hSet(value, [location |-> Point(req[r].in.longitude,
                                            req[r].in.latitude)])
       ELSE value

\* the hash value updateUserStatus builds
StatusValue(r) ==
  LET value == [status |-> req[r].in.status,
                message |-> MessageOrEmpty(req[r].in.message),
                icon |-> req[r].icon]
  IN IF HasCoordinates(req[r].in)
       THEN hSet(value, [location |-> Point(req[r].in.longitude,
                                            req[r].in.latitude)])
       ELSE value

ReqKey(r) == getUserKey(req[r].in.myUsername, ReqPrefix(r))

\* a handler that calls sendToAllClients before it awaits the publish
PersistedFanoutFirst(r) ==
  /\ req[r].pc = "persist"
  /\ store' = [store EXCEPT ![ReqKey(r)] = hSet(@, StatusValue(r))]
  /\ received' = [o \in Observers |->
                    IF o \in Range(sseClients)
                      THEN Append(received[o],
                                  [type |-> "update",
                                   message |-> updateMessage(req[r].in),
                                   src |-> r])
                      ELSE received[o]]
  /\ Set(r, [req[r] EXCEPT !.pc = "publish", !.persisted = TRUE])
  /\ UNCHANGED <<topic, sseClients, obs, embeddingModel, loads, external,
                 nextReq, hub, ct>>

\* a write that waits for the writes of the requests that arrived before it
\* for the same key
PersistedInArrivalOrder(r) ==
  /\ req[r].pc = "persist"
  /\ \A q \in Reqs :
       (q < r /\ req[q].pc # "idle" /\ "myUsername" \in DOMAIN req[q].in)
         => req[q].pc \notin {"connect", "load", "embed", "search", "persist"}
  /\ store' = [store EXCEPT ![ReqKey(r)] = hSet(@, StatusValue(r))]
  /\ Set(r, [req[r] EXCEPT !.pc = "publish", !.persisted = TRUE])
  /\ UNCHANGED <<topic, sseClients, obs, received, embeddingModel, loads,
                 external, nextReq, hub, ct>>

\* a setHash that deletes the key before it writes the fields
PersistedReplaces(r) ==
  /\ req[r].pc = "persist"
  /\ store' = [store EXCEPT ![ReqKey(r)] = StatusValue(r)]
  /\ Set(r, [req[r] EXCEPT !.pc = "publish", !.persisted = TRUE])
  /\ UNCHANGED <<topic, sseClients, obs, received, embeddingModel, loads,
                 external, nextReq, hub, ct>>

\* setHash resolves; the change description is built and publish is issued
Persisted(r) ==
  /\ req[r].pc = "persist"
  /\ store' = [store EXCEPT ![ReqKey(r)] = hSet(@, StatusValue(r))]
  /\ Set(r, [req[r] EXCEPT !.pc = "publish", !.persisted = TRUE])
  /\ UNCHANGED <<topic, sseClients, obs, received, embeddingModel, loads,
                 external, nextReq, hub, ct>>

\* a catch block that answers 400 and leaves the client as it is
CatchAnswersAtOnce(r, at) ==
  Set(r, [req[r] EXCEPT !.pc = "done", !.resp = "error", !.failedAt = at])

\* the catch block of the handler: close the client, then answer 400
Catch(r, at) ==
  Set(r, [req[r] EXCEPT !.pc = "catchclose", !.failedAt = at])

\* a setHash that logs the error and does not rethrow it
PersistFailedSwallowed(r) ==
  /\ req[r].pc = "persist"
  /\ Set(r, [req[r] EXCEPT !.pc = "publish", !.failedAt = "persist"])
  /\ UNCHANGED <<store, topic, sseClients, obs, received, embeddingModel,
                 loads, external, nextReq, hub, ct>>

PersistFailed(r) ==
  /\ req[r].pc = "persist"
  /\ Catch(r, "persist")
  /\ UNCHANGED <<store, topic, sseClients, obs, received, embeddingModel,
                 loads, external, nextReq, hub, ct>>

\* an entry of the channel's log: the message and the request that published
\* it (0: another process)
TopicEntry(msg, src) == [msg |-> msg, src |-> src]

\* a handler that publishes the change description twice
PublishedTwice(r) ==
  /\ req[r].pc = "publish"
  /\ topic' = topic \o <<TopicEntry(updateMessage(req[r].in), r),
                          TopicEntry(updateMessage(req[r].in), r)>>
  /\ Set(r, [req[r] EXCEPT !.pc = "fanout", !.published = TRUE])
  /\ UNCHANGED <<store, sseClients, obs, received, embeddingModel, loads,
                 external, nextReq, hub, ct>>

\* PUBLISH is executed by the store
Published(r) ==
  /\ req[r].pc = "publish"
  /\ topic' = Append(topic, TopicEntry(updateMessage(req[r].in), r))
  /\ Set(r, [req[r] EXCEPT !.pc = "fanout", !.published = TRUE])
  /\ UNCHANGED <<store, sseClients, obs, received, embeddingModel, loads,
                 external, nextReq, hub, ct>>

PublishFailed(r) ==
  /\ req[r].pc = "publish"
  /\ Catch(r, "publish")
  /\ UNCHANGED <<store, topic, sseClients, obs, received, embeddingModel,
                 loads, external, nextReq, hub, ct>>

\* sendToAllClients: forEach over the Set, in insertion order, one write each;
\* the observers before position k get the event, a throw at k ends the loop
SseEvent(r) == [type |-> "update", message |-> updateMessage(req[r].in), src |-> r]

sendToAllClients(rcv, clients, event, k) ==
  [o \in Observers |->
     IF \E i \in 1..(k - 1) : clients[i] = o THEN Append(rcv[o], event)
     ELSE rcv[o]]

\* publish resolved: the fan-out completes and closeConnection is issued
FanoutDone(r) ==
  /\ req[r].pc = "fanout"
  /\ received' = sendToAllClients(received, sseClients, SseEvent(r),
                                  Len(sseClients) + 1)
  /\ Set(r, [req[r] EXCEPT !.pc = "close", !.targets = sseClients])
  /\ UNCHANGED <<store, topic, sseClients, obs, embeddingModel, loads,
                 external, nextReq, hub, ct>>

\* the write to the k-th observer throws
FanoutThrew(r, k) ==
  /\ req[r].pc = "fanout"
  /\ k \in 1..Len(sseClients)
  /\ received' = sendToAllClients(received, sseClients, SseEvent(r), k)
  /\ Set(r, [req[r] EXCEPT !.pc = "catchclose", !.failedAt = "fanout",
                           !.targets = SubSeq(sseClients, 1, k - 1),
                           !.threw = sseClients[k]])
  /\ UNCHANGED <<store, topic, sseClients, obs, embeddingModel, loads,
                 external, nextReq, hub, ct>>

\* quit resolves: res.json({ ok: true })
Closed(r) ==
  /\ req[r].pc = "close"
  /\ Set(r, [req[r] EXCEPT !.pc = "done", !.client = "closed", !.resp = "ok"])
  /\ UNCHANGED <<store, topic, sseClients, obs, received, embeddingModel,
                 loads, external, nextReq, hub, ct>>

CloseFailed(r) ==
  /\ req[r].pc = "close"
  /\ Catch(r, "close")
  /\ UNCHANGED <<store, topic, sseClients, obs, received, embeddingModel,
                 loads, external, nextReq, hub, ct>>

\* the catch block's closeConnection settled (its own failure is swallowed)
CatchClosed(r) ==
  /\ req[r].pc = "catchclose"
  /\ Set(r, [req[r] EXCEPT !.pc = "done", !.client = "closed", !.resp = "error"])
  /\ UNCHANGED <<store, topic, sseClients, obs, received, embeddingModel,
                 loads, external, nextReq, hub, ct>>

\* ---------------------------------------------------- GET /api/updates
ConnectedEvent == [type |-> "connected", message |-> "Connected to updates", src |-> 0]

\* a handler that registers the response and leaves the greeting for later
ObserverConnectWithoutGreeting(o) ==
  /\ obs[o] = "new"
  /\ \A p \in Observers : p < o => obs[p] # "new"
  /\ sseClients' = Append(sseClients, o)
  /\ obs' = [obs EXCEPT ![o] = "open"]
  /\ UNCHANGED <<store, topic, received, embeddingModel, loads, external,
                 nextReq, req, hub, ct>>

\* a handler that also takes a stream that was closed before
ObserverConnectAgain(o) ==
  /\ obs[o] \in {"new", "closed"}
  /\ \A p \in Observers : p < o => obs[p] # "new"
  /\ sseClients' = Append(sseClients, o)
  /\ received' = [received EXCEPT ![o] = Append(@, ConnectedEvent)]
  /\ obs' = [obs EXCEPT ![o] = "open"]
  /\ UNCHANGED <<store, topic, embeddingModel, loads, external, nextReq, req, hub, ct>>

\* a handler that replays the channel's messages to the new observer
ObserverConnectReplays(o) ==
  /\ obs[o] = "new"
  /\ \A p \in Observers : p < o => obs[p] # "new"
  /\ sseClients' = Append(sseClients, o)
  /\ received' = [received EXCEPT ![o] =
                    <<ConnectedEvent>> \o
                    [i \in DOMAIN topic |->
                       [type |-> "update", message |-> topic[i].msg,
                        src |-> topic[i].src]]]
  /\ obs' = [obs EXCEPT ![o] = "open"]
  /\ UNCHANGED <<store, topic, embeddingModel, loads, external, nextReq, req, hub, ct>>

\* the handler: add to the Set, write the greeting, install the close handler
ObserverConnect(o) ==
  /\ obs[o] = "new"
  /\ \A p \in Observers : p < o => obs[p] # "new"
  /\ sseClients' = Append(sseClients, o)
  /\ received' = [received EXCEPT ![o] = Append(@, ConnectedEvent)]
  /\ obs' = [obs EXCEPT ![o] = "open"]
  /\ UNCHANGED <<store, topic, embeddingModel, loads, external, nextReq, req, hub, ct>>

\* a close handler that leaves the response in the Set
CloseHandlerKeeps(clients, o) == clients

\* req.on('close'): sseClients.delete(res)
CloseHandler(clients, o) == Remove(clients, o)

ObserverClose(o) ==
  /\ obs[o] = "open"
  /\ sseClients' = CloseHandler(sseClients, o)
  /\ obs' = [obs EXCEPT ![o] = "closed"]
  /\ UNCHANGED <<store, topic, received, embeddingModel, loads, external,
                 nextReq, req, hub, ct>>

\* ------------------------------------------------ the rest of the world
ExternalMessage(n) == [tpl |-> "external", n |-> n]

\* another process publishes on 'updates'; server.js holds no subscription
ExternalPublish ==
  /\ external < MaxExternal
  /\ external' = external + 1
  /\ topic' = Append(topic, TopicEntry(ExternalMessage(external + 1), 0))
  /\ UNCHANGED <<store, sseClients, obs, received, embeddingModel, loads,
                 nextReq, req, hub, ct>>

Next ==
  \/ \E r \in Reqs, in \in Inputs : UpdateStart(r, in)
  \/ \E r \in Reqs : Connected(r)
  \/ \E r \in Reqs : ConnectFailed(r)
  \/ \E r \in Reqs : LoadDone(r)
  \/ \E r \in Reqs : LoadFailed(r)
  \/ \E r \in Reqs : Embedded(r)
  \/ \E r \in Reqs : EmbedFailed(r)
  \/ \E r \in Reqs : Searched(r)
  \/ \E r \in Reqs : SearchFailed(r)
  \/ \E r \in Reqs : Persisted(r)
  \/ \E r \in Reqs : PersistFailed(r)
  \/ \E r \in Reqs : Published(r)
  \/ \E r \in Reqs : PublishFailed(r)
  \/ \E r \in Reqs : FanoutDone(r)
  \/ \E r \in Reqs, k \in 1..MaxObservers : FanoutThrew(r, k)
  \/ \E r \in Reqs : Closed(r)
  \/ \E r \in Reqs : CloseFailed(r)
  \/ \E r \in Reqs : CatchClosed(r)
  \/ \E o \in Observers : ObserverConnect(o)
  \/ \E o \in Observers : ObserverClose(o)
  \/ ExternalPublish

Spec == Init /\ [][Next]_vars

\* ===================================================================
\* The workshop server (src/unnamed/part_000:1-181) over the redis-dal.js
\* the guide gives as its solution (src/guide.md): one module-level client,
\* one module-level subscriberClient, a subscription made by connect-test.
\* ===================================================================
PrefixInputs == {"a"}                                \* body.prefix

WMessageInputs == {""}                               \* body.message

WInputs ==
  [myUsername : UsernameInputs, prefix : PrefixInputs,
   status : StatusInputs, message : WMessageInputs]

SetCt(c, fields) == ct' = [ct EXCEPT ![c] = fields]

\* connect-test arrives: redis.connect assigns the global client and awaits
CtStart(c, username) ==
  /\ ct[c].pc = "idle"
  /\ \A d \in Connects : d < c => ct[d].pc # "idle"
  /\ SetCt(c, [ct[c] EXCEPT !.pc = "connect", !.username = username])
  /\ hub' = [hub EXCEPT !.client = "connecting", !.clientOwner = c]
  /\ UNCHANGED <<store, topic, sseClients, obs, received, embeddingModel,
                 loads, external, nextReq, req>>

\* client.connect() resolved; ping is issued
CtConnected(c) ==
  /\ ct[c].pc = "connect"
  /\ SetCt(c, [ct[c] EXCEPT !.pc = "ping"])
  /\ hub' = [hub EXCEPT !.client = IF hub.clientOwner = c THEN "open" ELSE @]
  /\ UNCHANGED <<store, topic, sseClients, obs, received, embeddingModel,
                 loads, external, nextReq, req>>

\* PONG; extractPrefix caches the prefix; getStatus is issued
CtPong(c) ==
  /\ ct[c].pc = "ping"
  /\ SetCt(c, [ct[c] EXCEPT !.pc = "getStatus"])
  /\ hub' = [hub EXCEPT !.cachedPrefix = extractPrefix(ct[c].username)]
  /\ UNCHANGED <<store, topic, sseClients, obs, received, embeddingModel,
                 loads, external, nextReq, req>>

\* subscribe(): the subscriber client is created when the global is null
NeedsSubscriber(subscriberClient) == subscriberClient = "null"

\* getStatus resolved; redis.subscribe('updates', handler) runs to its await
CtGotStatus(c) ==
  /\ ct[c].pc = "getStatus"
  /\ IF NeedsSubscriber(hub.subscriberClient)
       THEN /\ hub' = [hub EXCEPT !.subscriberClient = "connecting",
                                  !.subscriberConns = @ + 1]
            /\ SetCt(c, [ct[c] EXCEPT !.pc = "subconnect"])
       ELSE /\ hub' = [hub EXCEPT !.earlySubscribe =
                                    @ \/ hub.subscriberClient = "connecting"]
            /\ SetCt(c, [ct[c] EXCEPT !.pc = "subscribe"])
  /\ UNCHANGED <<store, topic, sseClients, obs, received, embeddingModel,
                 loads, external, nextReq, req>>

\* subscriberClient.connect() resolved; SUBSCRIBE is issued
CtSubConnected(c) ==
  /\ ct[c].pc = "subconnect"
  /\ hub' = [hub EXCEPT !.subscriberClient = "ready"]
  /\ SetCt(c, [ct[c] EXCEPT !.pc = "subscribe"])
  /\ UNCHANGED <<store, topic, sseClients, obs, received, embeddingModel,
                 loads, external, nextReq, req>>

\* subscriberClient.subscribe(channel, messageHandler): one more listener
AddHandler(handlers) == handlers + 1

\* SUBSCRIBE resolved: the handler of this call is registered; res.json ok
CtSubscribed(c) ==
  /\ ct[c].pc = "subscribe"
  /\ hub.subscriberClient = "ready"
  /\ hub' = [hub EXCEPT !.handlers = AddHandler(@)]
  /\ SetCt(c, [ct[c] EXCEPT !.pc = "done", !.resp = "ok"])
  /\ UNCHANGED <<store, topic, sseClients, obs, received, embeddingModel,
                 loads, external, nextReq, req>>

\* any awaited call of the handler rejects: the catch answers 400
CtFailed(c) ==
  /\ ct[c].pc \in {"connect", "ping", "getStatus", "subconnect", "subscribe"}
  /\ SetCt(c, [ct[c] EXCEPT !.pc = "done", !.resp = "error"])
  /\ UNCHANGED <<store, topic, sseClients, obs, received, embeddingModel,
                 loads, external, nextReq, req, hub>>

\* the store pushes a published message to the subscriber connection
Push(h, m) == IF h.handlers > 0 THEN [h EXCEPT !.inbox = Append(@, m)] ELSE h

\* update-status of the workshop server: validation, then redis.updateStatus
WUpdateStart(r, in) ==
  /\ req[r].pc = "idle"
  /\ r = nextReq + 1
  /\ nextReq' = r
  /\ LET v == Validate(in) IN
       IF v # "valid"
         THEN /\ Set(r, [req[r] EXCEPT !.pc = "done", !.in = in, !.resp = v,
                                       !.failedAt = "validate"])
              /\ loads' = loads
         ELSE IF ~IsBlank(in.message)
           THEN IF NeedsLoad(embeddingModel)
                  THEN /\ loads' = loads + 1
                       /\ Set(r, [req[r] EXCEPT !.pc = "load", !.in = in,
                                                !.model = loads + 1])
                  ELSE /\ loads' = loads
                       /\ Set(r, [req[r] EXCEPT !.pc = "embed", !.in = in,
                                                !.model = embeddingModel])
           ELSE /\ loads' = loads
                /\ Set(r, [req[r] EXCEPT !.pc = "persist", !.in = in])
  /\ UNCHANGED <<store, topic, sseClients, obs, received, embeddingModel,
                 external, hub, ct>>

\* the hash value of the guide's updateStatus: the icon only when one was found
WStatusValue(r) ==
  IF req[r].icon = NoValue
    THEN [status |-> req[r].in.status, message |-> req[r].in.message]
    ELSE [status |-> req[r].in.status, message |-> req[r].in.message,
          icon |-> req[r].icon]

\* client.hSet resolved; the change description is published on the client
WPersisted(r) ==
  /\ req[r].pc = "persist"
  /\ hub.client # "null"
  /\ store' = [store EXCEPT ![ReqKey(r)] = hSet(@, WStatusValue(r))]
  /\ Set(r, [req[r] EXCEPT !.pc = "publish", !.persisted = TRUE])
  /\ UNCHANGED <<topic, sseClients, obs, received, embeddingModel, loads,
                 external, nextReq, hub, ct>>

\* the catch of the workshop handler answers 400, there is nothing to close
WFailed(r) ==
  /\ req[r].pc \in {"persist", "publish"}
  /\ Set(r, [req[r] EXCEPT !.pc = "done", !.resp = "error",
                           !.failedAt = req[r].pc])
  /\ UNCHANGED <<store, topic, sseClients, obs, received, embeddingModel,
                 loads, external, nextReq, hub, ct>>

\* PUBLISH executed: res.json({ ok: true }); the observers are reached only
\* through the subscription
WPublished(r) ==
  /\ req[r].pc = "publish"
  /\ hub.client # "null"
  /\ topic' = Append(topic, TopicEntry(updateMessage(req[r].in), r))
  /\ hub' = Push(hub, TopicEntry(updateMessage(req[r].in), r))
  /\ Set(r, [req[r] EXCEPT !.pc = "done", !.published = TRUE, !.resp = "ok"])
  /\ UNCHANGED <<store, sseClients, obs, received, embeddingModel, loads,
                 external, nextReq, ct>>

HubExternalPublish ==
  /\ external < MaxExternal
  /\ external' = external + 1
  /\ LET m == TopicEntry(ExternalMessage(external + 1), 0)
     IN /\ topic' = Append(topic, m)
        /\ hub' = Push(hub, m)
  /\ UNCHANGED <<store, sseClients, obs, received, embeddingModel, loads,
                 nextReq, req, ct>>

\* the listeners of 'updates' run for one pushed message: each is the
\* handler of part_000:67-71, a forEach over sseClients
RECURSIVE RunHandlers(_, _, _, _)
RunHandlers(rcv, clients, event, n) ==
  IF n = 0 THEN rcv
  ELSE RunHandlers(sendToAllClients(rcv, clients, event, Len(clients) + 1),
                   clients, event, n - 1)

HubEvent(m) == [type |-> "update", message |-> m.msg, src |-> m.src]

HubReceive ==
  /\ Len(hub.inbox) > 0
  /\ received' = RunHandlers(received, sseClients, HubEvent(Head(hub.inbox)),
                             hub.handlers)
  /\ hub' = [hub EXCEPT !.inbox = Tail(@)]
  /\ UNCHANGED <<store, topic, sseClients, obs, embeddingModel, loads,
                 external, nextReq, req, ct>>

\* the write to the k-th observer throws inside the first listener
HubReceiveThrew(k) ==
  /\ Len(hub.inbox) > 0
  /\ k \in 1..Len(sseClients)
  /\ received' = sendToAllClients(received, sseClients,
                                  HubEvent(Head(hub.inbox)), k)
  /\ hub' = [hub EXCEPT !.inbox = Tail(@)]
  /\ UNCHANGED <<store, topic, sseClients, obs, embeddingModel, loads,
                 external, nextReq, req, ct>>

NextHub ==
  \/ \E c \in Connects, u \in Principals : CtStart(c, u)
  \/ \E c \in Connects : CtConnected(c)
  \/ \E c \in Connects : CtPong(c)
  \/ \E c \in Connects : CtGotStatus(c)
  \/ \E c \in Connects : CtSubConnected(c)
  \/ \E c \in Connects : CtSubscribed(c)
  \/ \E c \in Connects : CtFailed(c)
  \/ \E r \in Reqs, in \in WInputs : WUpdateStart(r, in)
  \/ \E r \in Reqs : WPersisted(r)
  \/ \E r \in Reqs : WFailed(r)
  \/ \E r \in Reqs : WPublished(r)
  \/ HubExternalPublish
  \/ HubReceive
  \/ \E k \in 1..MaxObservers : HubReceiveThrew(k)
  \/ \E o \in Observers : ObserverConnect(o)
  \/ \E o \in Observers : ObserverClose(o)

SpecHub == Init /\ [][NextHub]_vars

\* ===================================================================
\* The workshop server with two principals: connect-test caches the prefix
\* in a module global, users-on-map reads the global, update-status takes
\* the prefix from the request body.
\* ===================================================================
HubPrincipals == {"redisboard-a", "redisboard-b"}

TenantInputs ==
  [myUsername : {"redisboard-a"}, prefix : {"a", "b"},
   status : {"green"}, message : {""}]

\* the sender of a users-on-map request; the request has no body fields
MapInputs == [map : {TRUE}, caller : HubPrincipals]

\* `${prefix}_status_index`
StatusIndexName(prefix) ==
  CASE prefix = "a" -> "a_status_index"
    [] prefix = "b" -> "b_status_index"
    [] OTHER        -> "status_index"

\* the spatial indexes that were created, with the key prefix each covers:
\* tenant a ran FT.CREATE a_status_index ... PREFIX 1 status:a:, nobody else did
StatusIndexes == [a_status_index |-> "a"]

\* the query getStatusesWithLocation sends: the index of the prefix and the
\* polygon literal of the boundary file
MapQuery(prefix, boundary) ==
  [index |-> StatusIndexName(prefix), shape |-> geojsonToWKT(Boundaries[boundary]),
   vector |-> 0, k |-> 0]

\* the ring of a POLYGON literal as the store reads it
WktRing(shape) == [i \in DOMAIN shape[2] |-> WktVertex(shape[2][i])]

\* a search that answers with every document of the index
ftSearchAll(query) ==
  {k \in Keys : k[2] = StatusIndexes[query.index] /\ store[k] # EmptyHash}

\* FT.SEARCH index '@location:[WITHIN $shape]': the indexed hashes whose
\* location field is a point inside the shape
ftSearchWithin(query) ==
  {k \in Keys : /\ k[2] = StatusIndexes[query.index]
                /\ store[k] # EmptyHash
                /\ "location" \in DOMAIN store[k]
                /\ ValidPoint(store[k].location)
                /\ Inside(WktVertex(<<store[k].location[2], store[k].location[3]>>),
                          WktRing(query.shape))}

\* doc.value.location.match(/POINT\(([^ ]+) ([^ ]+)\)/): the two groups
MatchPoint(location) ==
  IF Len(location) = 3 /\ location[1] = "POINT"
    THEN <<location[2], location[3]>> ELSE <<>>

\* a result parser that reads the latitude from the first group
MapEntryLatitudeFirst(k) ==
  LET value == store[k]
      match == IF "location" \in DOMAIN value
                 THEN MatchPoint(value.location) ELSE <<>>
  IN [username  |-> k[3],
      status    |-> IF "status" \in DOMAIN value /\ ~Falsy(value.status)
                      THEN value.status ELSE "green",
      message   |-> IF "message" \in DOMAIN value /\ ~Falsy(value.message)
                      THEN value.message ELSE "",
      icon      |-> IF "icon" \in DOMAIN value /\ ~Falsy(value.icon)
                      THEN value.icon ELSE "circle",
      longitude |-> IF match # <<>> THEN parseFloat(match[2]) ELSE NoValue,
      latitude  |-> IF match # <<>> THEN parseFloat(match[1]) ELSE NoValue]

\* results.documents.map(doc => ...): username from the key, defaults for
\* the scalar fields, longitude and latitude from the POINT literal
MapEntry(k) ==
  LET value == store[k]
      match == IF "location" \in DOMAIN value
                 THEN MatchPoint(value.location) ELSE <<>>
  IN [username  |-> k[3],
      status    |-> IF "status" \in DOMAIN value /\ ~Falsy(value.status)
                      THEN value.status ELSE "green",
      message   |-> IF "message" \in DOMAIN value /\ ~Falsy(value.message)
                      THEN value.message ELSE "",
      icon      |-> IF "icon" \in DOMAIN value /\ ~Falsy(value.icon)
                      THEN value.icon ELSE "circle",
      longitude |-> IF match # <<>> THEN parseFloat(match[1]) ELSE NoValue,
      latitude  |-> IF match # <<>> THEN parseFloat(match[2]) ELSE NoValue]

\* the principals whose connect-test has answered ok
ConnectedPrincipals ==
  {ct[c].username : c \in {d \in Connects : ct[d].resp = "ok"}}

\* users-on-map: 400 without a cached prefix, else the query runs on the
\* index of the cached prefix
WMapStart(r, in) ==
  /\ req[r].pc = "idle"
  /\ r = nextReq + 1
  /\ in.caller \in ConnectedPrincipals
  /\ nextReq' = r
  /\ IF hub.cachedPrefix = NoValue
       THEN Set(r, [req[r] EXCEPT !.pc = "done", !.in = in, !.resp = "error",
                                  !.failedAt = "validate"])
       ELSE Set(r, [req[r] EXCEPT !.pc = "mapquery", !.in = in,
                      !.query = MapQuery(hub.cachedPrefix, "country")])
  /\ UNCHANGED <<store, topic, sseClients, obs, received, embeddingModel,
                 loads, external, hub, ct>>

\* FT.SEARCH answers: the documents are parsed; 'no such index' is caught
\* and gives []; the caller answers res.json({ ok: true, users })
WMapDone(r) ==
  /\ req[r].pc = "mapquery"
  /\ Set(r, [req[r] EXCEPT !.pc = "done", !.resp = "ok",
                !.users = IF req[r].query.index \in DOMAIN StatusIndexes
                            THEN {MapEntry(k) : k \in ftSearchWithin(req[r].query)}
                            ELSE {}])
  /\ UNCHANGED <<store, topic, sseClients, obs, received, embeddingModel,
                 loads, external, nextReq, hub, ct>>

WMapFailed(r) ==
  /\ req[r].pc = "mapquery"
  /\ Set(r, [req[r] EXCEPT !.pc = "done", !.resp = "error",
                           !.failedAt = "mapquery"])
  /\ UNCHANGED <<store, topic, sseClients, obs, received, embeddingModel,
                 loads, external, nextReq, hub, ct>>

NextTenant ==
  \/ \E c \in Connects, u \in HubPrincipals : CtStart(c, u)
  \/ \E c \in Connects : CtConnected(c)
  \/ \E c \in Connects : CtPong(c)
  \/ \E c \in Connects : CtGotStatus(c)
  \/ \E c \in Connects : CtSubConnected(c)
  \/ \E c \in Connects : CtSubscribed(c)
  \/ \E c \in Connects : CtFailed(c)
  \/ \E r \in Reqs, in \in TenantInputs : WUpdateStart(r, in)
  \/ \E r \in Reqs : WPersisted(r)
  \/ \E r \in Reqs : WFailed(r)
  \/ \E r \in Reqs : WPublished(r)
  \/ \E r \in Reqs, in \in MapInputs : WMapStart(r, in)
  \/ \E r \in Reqs : WMapDone(r)
  \/ \E r \in Reqs : WMapFailed(r)
  \/ HubReceive

SpecTenant == Init /\ [][NextTenant]_vars

\* ===================================================================
\* Icon resolution (server.js:64-96) over three tenants: tenant a with a
\* filled icon index, tenant b with an empty one, a principal with none;
\* reached through update-status and called on its own.
\* ===================================================================
IconMessages == {NoValue, "", "  ", "coffee", "house"}

IconInputs ==
  [username : AllPrincipals, myUsername : {"redisboard-a"},
   status : {"green"}, message : IconMessages]

\* the arguments of a call of searchBestIcon(client, statusMessage, prefix)
DirectInputs ==
  [direct : {TRUE}, prefix : {"a", "b", "guest"}, message : IconMessages]

\* searchBestIcon is called: the early return, else generateEmbedding runs to
\* its first await
ResolveCall(r, in) ==
  /\ req[r].pc = "idle"
  /\ r = nextReq + 1
  /\ nextReq' = r
  /\ IF IsBlank(in.message)
       THEN /\ loads' = loads
            /\ Set(r, [req[r] EXCEPT !.pc = "done", !.in = in,
                                     !.icon = "circle"])
       ELSE IF NeedsLoad(embeddingModel)
              THEN /\ loads' = loads + 1
                   /\ Set(r, [req[r] EXCEPT !.pc = "load", !.in = in,
                                            !.model = loads + 1])
              ELSE /\ loads' = loads
                   /\ Set(r, [req[r] EXCEPT !.pc = "embed", !.in = in,
                                            !.model = embeddingModel])
  /\ UNCHANGED <<store, topic, sseClients, obs, received, embeddingModel,
                 external, hub, ct>>

NextIcon ==
  \/ \E r \in Reqs, in \in IconInputs : UpdateStart(r, in)
  \/ \E r \in Reqs, in \in DirectInputs : ResolveCall(r, in)
  \/ \E r \in Reqs : Connected(r)
  \/ \E r \in Reqs : ConnectFailed(r)
  \/ \E r \in Reqs : LoadDone(r)
  \/ \E r \in Reqs : LoadFailed(r)
  \/ \E r \in Reqs : Embedded(r)
  \/ \E r \in Reqs : EmbedFailed(r)
  \/ \E r \in Reqs : Searched(r)
  \/ \E r \in Reqs : SearchFailed(r)
  \/ \E r \in Reqs : Persisted(r)
  \/ \E r \in Reqs : PersistFailed(r)
  \/ \E r \in Reqs : Published(r)
  \/ \E r \in Reqs : PublishFailed(r)
  \/ \E r \in Reqs : FanoutDone(r)
  \/ \E r \in Reqs : Closed(r)
  \/ \E r \in Reqs : CloseFailed(r)
  \/ \E r \in Reqs : CatchClosed(r)

SpecIcon == Init /\ [][NextIcon]_vars

\* ===================================================================
\* The read handlers of server.js (connect-test, list-users, users-on-map)
\* next to update-status, for two tenants. Each handler invocation is a
\* process ct[c]; each opens its own connection and closes it.
\* ===================================================================
OpsPrincipals == {"redisboard-a", "redisboard-b"}

OpsInputs ==
  [username : OpsPrincipals, myUsername : {"redisboard-a"},
   status : {"green", "purple"}, message : {NoValue, "coffee"}]

\* what redis-dal.js exports
Exports ==
  {"createRedisConnection", "setHash", "getHash", "deleteKey", "scanKeys",
   "ping", "publish", "vectorSearch", "closeConnection"}

\* a key exists while its hash has a field
Exists(k) == store[k] # EmptyHash

\* SCAN MATCH with a pattern ending in *, over keys given by their parts
Matches(k, pattern) ==
  \A i \in 1..Len(pattern) : pattern[i] = "*" \/ (i <= Len(k) /\ k[i] = pattern[i])

\* 'status:*'
ScanPattern == <<"status", "*">>

\* a pattern confined to the caller's namespace
TenantPattern(prefix) == <<"status", prefix, "*">>

\* currentStatus || { status: 'green', message: '', icon: 'circle' }
DefaultStatus == [status |-> "green", message |-> "", icon |-> "circle"]

\* getHash: null for a key without fields
getHash(k) == IF Exists(k) THEN store[k] ELSE NoValue

\* data.f || fallback over a hash that may lack the field
FieldOr(hash, f, fallback) ==
  IF f \in DOMAIN hash /\ ~Falsy(hash[f]) THEN hash[f] ELSE fallback

\* the entry getAllUsers builds for a scanned key; value null gives defaults
UserEntry(k, failed) ==
  LET data == IF failed THEN EmptyHash ELSE store[k]
  IN [username |-> k[3],
      status   |-> FieldOr(data, "status", "green"),
      message  |-> FieldOr(data, "message", ""),
      icon     |-> FieldOr(data, "icon", "circle")]

IdleOp(kind, username) ==
  [kind |-> kind, pc |-> "connect", username |-> username, client |-> "none",
   keys |-> {}, reads |-> {}, index |-> NoValue, users |-> {},
   found |-> FALSE, currentStatus |-> EmptyHash, error |-> "none",
   resp |-> "none"]

\* a read handler is entered: createRedisConnection is awaited
OpStart(c, kind, username) ==
  /\ ct[c].pc = "idle"
  /\ \A d \in Reads : d < c => ct[d].pc # "idle"
  /\ SetCt(c, IdleOp(kind, username))
  /\ UNCHANGED <<store, topic, sseClients, obs, received, embeddingModel,
                 loads, external, nextReq, req, hub>>

ConnectTestStart(c, username) == OpStart(c, "connect-test", username)
ListUsersStart(c, username)   == OpStart(c, "list-users", username)
UsersOnMapStart(c, username)  == OpStart(c, "users-on-map", username)

\* createRedisConnection throws: client is undefined in the catch
OpConnectFailed(c) ==
  /\ ct[c].pc = "connect"
  /\ SetCt(c, [ct[c] EXCEPT !.pc = "done", !.resp = "error",
                            !.error = "store"])
  /\ UNCHANGED <<store, topic, sseClients, obs, received, embeddingModel,
                 loads, external, nextReq, req, hub>>

\* the connection is up: connect-test pings, list-users scans, users-on-map
\* calls redis.searchStatusesWithLocation(client, 'status_index'), which is a
\* TypeError when the data layer does not export it
OpConnected(c) ==
  /\ ct[c].pc = "connect"
  /\ CASE ct[c].kind = "connect-test" ->
            SetCt(c, [ct[c] EXCEPT !.pc = "ping", !.client = "open"])
       [] ct[c].kind = "list-users" ->
            SetCt(c, [ct[c] EXCEPT !.pc = "scan", !.client = "open"])
       [] OTHER ->
            SetCt(c, [ct[c] EXCEPT
                        !.pc = IF "searchStatusesWithLocation" \in Exports
                                 THEN "mapsearch" ELSE "catchclose",
                        !.error = IF "searchStatusesWithLocation" \in Exports
                                    THEN "none" ELSE "TypeError",
                        !.client = "open", !.index = "status_index"])
  /\ UNCHANGED <<store, topic, sseClients, obs, received, embeddingModel,
                 loads, external, nextReq, req, hub>>

\* PONG: the key of the connecting user is read
TestPong(c) ==
  /\ ct[c].pc = "ping"
  /\ SetCt(c, [ct[c] EXCEPT !.pc = "read"])
  /\ UNCHANGED <<store, topic, sseClients, obs, received, embeddingModel,
                 loads, external, nextReq, req, hub>>

TestKey(c) == getUserKey(ct[c].username, extractPrefix(ct[c].username))

\* a connect-test that stores the default record of a user that has none
TestReadInitialises(c) ==
  /\ ct[c].pc = "read"
  /\ store' = [store EXCEPT ![TestKey(c)] =
                  IF Exists(TestKey(c)) THEN @ ELSE DefaultStatus]
  /\ SetCt(c, [ct[c] EXCEPT !.pc = "close", !.reads = {TestKey(c)},
                            !.found = Exists(TestKey(c)),
                            !.currentStatus = IF Exists(TestKey(c))
                                                THEN getHash(TestKey(c))
                                                ELSE DefaultStatus])
  /\ UNCHANGED <<topic, sseClients, obs, received, embeddingModel,
                 loads, external, nextReq, req, hub>>

\* a getHash that answers with the status field only
TestReadStatusOnly(c) ==
  /\ ct[c].pc = "read"
  /\ SetCt(c, [ct[c] EXCEPT !.pc = "close", !.reads = {TestKey(c)},
                 !.found = Exists(TestKey(c)),
                 !.currentStatus =
                    IF Exists(TestKey(c))
                      THEN [status |-> store[TestKey(c)].status,
                            message |-> "", icon |-> "circle"]
                      ELSE DefaultStatus])
  /\ UNCHANGED <<store, topic, sseClients, obs, received, embeddingModel,
                 loads, external, nextReq, req, hub>>

\* HGETALL answers; closeConnection is awaited before the response is sent
TestRead(c) ==
  /\ ct[c].pc = "read"
  /\ SetCt(c, [ct[c] EXCEPT !.pc = "close", !.reads = {TestKey(c)},
                 !.found = Exists(TestKey(c)),
                 !.currentStatus = IF Exists(TestKey(c)) THEN getHash(TestKey(c))
                                   ELSE DefaultStatus])
  /\ UNCHANGED <<store, topic, sseClients, obs, received, embeddingModel,
                 loads, external, nextReq, req, hub>>

\* the keys one SCAN batch returns for a pattern
scan(pattern) == {k \in Keys : Exists(k) /\ Matches(k, pattern)}

\* a getAllUsers that scans the caller's namespace only
ListScannedOwn(c) ==
  /\ ct[c].pc = "scan"
  /\ LET keys == scan(TenantPattern(extractPrefix(ct[c].username)))
     IN SetCt(c, [ct[c] EXCEPT !.pc = IF keys = {} THEN "close" ELSE "hgetall",
                               !.keys = keys])
  /\ UNCHANGED <<store, topic, sseClients, obs, received, embeddingModel,
                 loads, external, nextReq, req, hub>>

\* SCAN answers with cursor 0: one getHash per key is issued; without keys
\* scanKeys returns at once
ListScanned(c) ==
  /\ ct[c].pc = "scan"
  /\ LET keys == scan(ScanPattern)
     IN SetCt(c, [ct[c] EXCEPT !.pc = IF keys = {} THEN "close" ELSE "hgetall",
                               !.keys = keys])
  /\ UNCHANGED <<store, topic, sseClients, obs, received, embeddingModel,
                 loads, external, nextReq, req, hub>>

\* Promise.all settles: a getHash that rejected counts as null
ListRead(c, failed) ==
  /\ ct[c].pc = "hgetall"
  /\ failed \subseteq ct[c].keys
  /\ Cardinality(failed) <= 1
  /\ SetCt(c, [ct[c] EXCEPT !.pc = "close", !.reads = ct[c].keys,
                 !.users = {UserEntry(k, k \in failed) : k \in ct[c].keys}])
  /\ UNCHANGED <<store, topic, sseClients, obs, received, embeddingModel,
                 loads, external, nextReq, req, hub>>

\* ping, getHash or scan rejects: the catch closes the client
OpFailed(c) ==
  /\ ct[c].pc \in {"ping", "read", "scan"}
  /\ SetCt(c, [ct[c] EXCEPT !.pc = "catchclose", !.error = "store"])
  /\ UNCHANGED <<store, topic, sseClients, obs, received, embeddingModel,
                 loads, external, nextReq, req, hub>>

\* quit resolves: res.json({ ok: true, ... })
OpClosed(c) ==
  /\ ct[c].pc = "close"
  /\ SetCt(c, [ct[c] EXCEPT !.pc = "done", !.client = "closed", !.resp = "ok"])
  /\ UNCHANGED <<store, topic, sseClients, obs, received, embeddingModel,
                 loads, external, nextReq, req, hub>>

OpCloseFailed(c) ==
  /\ ct[c].pc = "close"
  /\ SetCt(c, [ct[c] EXCEPT !.pc = "catchclose", !.error = "store"])
  /\ UNCHANGED <<store, topic, sseClients, obs, received, embeddingModel,
                 loads, external, nextReq, req, hub>>

\* the catch block's closeConnection settled: res.status(400)
OpCatchClosed(c) ==
  /\ ct[c].pc = "catchclose"
  /\ SetCt(c, [ct[c] EXCEPT !.pc = "done", !.client = "closed",
                            !.resp = "error"])
  /\ UNCHANGED <<store, topic, sseClients, obs, received, embeddingModel,
                 loads, external, nextReq, req, hub>>

NextOps ==
  \/ \E c \in Reads, u \in OpsPrincipals : ConnectTestStart(c, u)
  \/ \E c \in Reads, u \in OpsPrincipals : ListUsersStart(c, u)
  \/ \E c \in Reads, u \in OpsPrincipals : UsersOnMapStart(c, u)
  \/ \E c \in Reads : OpConnected(c)
  \/ \E c \in Reads : OpConnectFailed(c)
  \/ \E c \in Reads : TestPong(c)
  \/ \E c \in Reads : TestRead(c)
  \/ \E c \in Reads : ListScanned(c)
  \/ \E c \in Reads : \E failed \in SUBSET Keys : ListRead(c, failed)
  \/ \E c \in Reads : OpFailed(c)
  \/ \E c \in Reads : OpClosed(c)
  \/ \E c \in Reads : OpCloseFailed(c)
  \/ \E c \in Reads : OpCatchClosed(c)
  \/ \E r \in Reqs, in \in OpsInputs : UpdateStart(r, in)
  \/ \E r \in Reqs : Connected(r)
  \/ \E r \in Reqs : ConnectFailed(r)
  \/ \E r \in Reqs : LoadDone(r)
  \/ \E r \in Reqs : Embedded(r)
  \/ \E r \in Reqs : Searched(r)
  \/ \E r \in Reqs : Persisted(r)
  \/ \E r \in Reqs : PersistFailed(r)
  \/ \E r \in Reqs : Published(r)
  \/ \E r \in Reqs : FanoutDone(r)
  \/ \E r \in Reqs : Closed(r)
  \/ \E r \in Reqs : CatchClosed(r)

SpecOps == Init /\ [][NextOps]_vars

\* ===================================================================
\* update-status with coordinates (server.js:304-308, 185-189): one tenant,
\* one user, each coordinate absent, a number or null.
\* ===================================================================
GeoInputs ==
  [username : {"redisboard-a"}, myUsername : {"redisboard-a"},
   status : {"green"}, message : {NoValue},
   longitude : {NoValue, "34.8", Null}, latitude : {NoValue, "32.1", Null}]

NextGeo ==
  \/ \E r \in Reqs, in \in GeoInputs : UpdateStart(r, in)
  \/ \E r \in Reqs : Connected(r)
  \/ \E r \in Reqs : ConnectFailed(r)
  \/ \E r \in Reqs : Persisted(r)
  \/ \E r \in Reqs : PersistFailed(r)
  \/ \E r \in Reqs : Published(r)
  \/ \E r \in Reqs : PublishFailed(r)
  \/ \E r \in Reqs : FanoutDone(r)
  \/ \E r \in Reqs : Closed(r)
  \/ \E r \in Reqs : CloseFailed(r)
  \/ \E r \in Reqs : CatchClosed(r)

SpecGeo == Init /\ [][NextGeo]_vars

\* ===================================================================
\* The map query. server.js writes the location (updateUserStatus) and
\* has the users-on-map handler; the query itself is the
\* getStatusesWithLocation of the guide's data layer, called here on a
\* client connected as one of two principals, with one of two boundary
\* files.
\* ===================================================================
MapPrincipals == {"redisboard-a", "redisboard-b"}

MapUpdateInputs ==
  [username : {"redisboard-a"}, myUsername : {"redisboard-a"},
   status : {"green"}, message : {NoValue},
   longitude : {NoValue, "35.0", "31", "0"},
   latitude : {NoValue, "31", "35"}]

\* the connected principal and the boundary file of a call
MapCallInputs ==
  [map : {TRUE}, caller : MapPrincipals, boundary : DOMAIN Boundaries]

\* getStatusesWithLocation is called: the boundary is converted and
\* FT.SEARCH is issued on the index of the client's prefix
MapCall(r, in) ==
  /\ req[r].pc = "idle"
  /\ r = nextReq + 1
  /\ nextReq' = r
  /\ Set(r, [req[r] EXCEPT !.pc = "mapquery", !.in = in,
                 !.query = MapQuery(extractPrefix(in.caller), in.boundary)])
  /\ UNCHANGED <<store, topic, sseClients, obs, received, embeddingModel,
                 loads, external, hub, ct>>

NextMap ==
  \/ \E r \in Reqs, in \in MapUpdateInputs : UpdateStart(r, in)
  \/ \E r \in Reqs : Connected(r)
  \/ \E r \in Reqs : ConnectFailed(r)
  \/ \E r \in Reqs : Persisted(r)
  \/ \E r \in Reqs : PersistFailed(r)
  \/ \E r \in Reqs : Published(r)
  \/ \E r \in Reqs : FanoutDone(r)
  \/ \E r \in Reqs : Closed(r)
  \/ \E r \in Reqs : CatchClosed(r)
  \/ \E r \in Reqs, in \in MapCallInputs : MapCall(r, in)
  \/ \E r \in Reqs : WMapDone(r)
  \/ \E r \in Reqs : WMapFailed(r)
  \/ \E c \in Reads, u \in MapPrincipals : ListUsersStart(c, u)
  \/ \E c \in Reads, u \in MapPrincipals : UsersOnMapStart(c, u)
  \/ \E c \in Reads : OpConnected(c)
  \/ \E c \in Reads : OpConnectFailed(c)
  \/ \E c \in Reads : ListScanned(c)
  \/ \E c \in Reads : \E failed \in SUBSET Keys : ListRead(c, failed)
  \/ \E c \in Reads : OpFailed(c)
  \/ \E c \in Reads : OpClosed(c)
  \/ \E c \in Reads : OpCatchClosed(c)

SpecMap == Init /\ [][NextMap]_vars

\* ===================================================================
\* update-status with every field of the body varying: each status of the
\* enum and one outside it, the message absent, empty or a text, the
\* coordinates absent or given.
\* ===================================================================
WriteInputs ==
  [username : {"redisboard-a"}, myUsername : {"redisboard-a"},
   status : {"red", "green", "purple", "yellow"},
   message : {NoValue, "", "coffee"},
   longitude : {NoValue, "35"}, latitude : {NoValue, "31"}]

NextWrite ==
  \/ \E r \in Reqs, in \in WriteInputs : UpdateStart(r, in)
  \/ \E r \in Reqs : Connected(r)
  \/ \E r \in Reqs : ConnectFailed(r)
  \/ \E r \in Reqs : LoadDone(r)
  \/ \E r \in Reqs : Embedded(r)
  \/ \E r \in Reqs : Searched(r)
  \/ \E r \in Reqs : Persisted(r)
  \/ \E r \in Reqs : PersistFailed(r)
  \/ \E r \in Reqs : Published(r)
  \/ \E r \in Reqs : FanoutDone(r)
  \/ \E r \in Reqs : Closed(r)
  \/ \E r \in Reqs : CatchClosed(r)

SpecWrite == Init /\ [][NextWrite]_vars

\* ===================================================================
\* Key naming as text: getUserKey builds the key of a record and the list
\* takes the username out of it again with split(':'), slice(2), join(':').
\* A text is a sequence of symbols; "status" has no colon in it and is one
\* symbol. The two layouts are status:{prefix}:{username} (server.js) and
\* {prefix}:status:{username} (part_000 305-321).
\* ===================================================================
NameSymbols == {"a", ":"}

RECURSIVE Texts(_)
Texts(n) ==
  IF n = 0 THEN {<<>>}
  ELSE Texts(n - 1) \cup
       {Append(t, x) : t \in {u \in Texts(n - 1) : Len(u) = n - 1},
                       x \in NameSymbols}

\* `status:${prefix}:${username}`
getUserKeyText(username, prefix) ==
  <<"status", ":">> \o prefix \o <<":">> \o username

\* `${prefix}:status:${username}`
getUserKeyPrefixFirst(username, prefix) ==
  prefix \o <<":", "status", ":">> \o username

\* String.prototype.split(':')
RECURSIVE split(_)
split(text) ==
  IF \A i \in DOMAIN text : text[i] # ":" THEN <<text>>
  ELSE LET i == CHOOSE j \in DOMAIN text :
                  text[j] = ":" /\ \A k \in 1..(j - 1) : text[k] # ":"
       IN <<SubSeq(text, 1, i - 1)>> \o split(SubSeq(text, i + 1, Len(text)))

\* Array.prototype.slice(n)
slice(parts, n) == SubSeq(parts, n + 1, Len(parts))

\* Array.prototype.join(':')
RECURSIVE join(_)
join(parts) ==
  IF parts = <<>> THEN <<>>
  ELSE IF Len(parts) = 1 THEN parts[1]
  ELSE parts[1] \o <<":">> \o join(Tail(parts))

\* a parser that takes the third part of the key as the username
parseUsernameThirdPart(key) ==
  LET parts == split(key) IN IF Len(parts) >= 3 THEN parts[3] ELSE <<>>

\* key.split(':'), parts.slice(2).join(':')
parseUsernameFromKey(key) ==
  LET parts == split(key) IN join(slice(parts, 2))

\* the calls: the arguments, then the key, then the parsed username
KeyCall(layout, prefix, username) ==
  [pc |-> "args", layout |-> layout, prefix |-> prefix,
   username |-> username, key |-> <<>>, parsed |-> <<>>]

InitKey ==
  /\ hub = IdleHub
  /\ ct \in [Reads -> {KeyCall(l, p, u) :
                         l \in {"status-first", "prefix-first"},
                         p \in Texts(MaxNameLen), u \in Texts(MaxNameLen)}]
  /\ store = [k \in Keys |-> EmptyHash]
  /\ topic = <<>>
  /\ sseClients = <<>>
  /\ obs = [o \in Observers |-> "new"]
  /\ received = [o \in Observers |-> <<>>]
  /\ embeddingModel = 0
  /\ loads = 0
  /\ external = 0
  /\ nextReq = 0
  /\ req = [r \in Reqs |-> IdleReq]

\* update builds the key of the record
KeyBuilt(c) ==
  /\ ct[c].pc = "args"
  /\ SetCt(c, [ct[c] EXCEPT
                !.pc = "key",
                !.key = IF ct[c].layout = "status-first"
                          THEN getUserKeyText(ct[c].username, ct[c].prefix)
                          ELSE getUserKeyPrefixFirst(ct[c].username,
                                                     ct[c].prefix)])
  /\ UNCHANGED <<store, topic, sseClients, obs, received, embeddingModel,
                 loads, external, nextReq, req, hub>>

\* list takes the username out of the key the scan returned
KeyParsed(c) ==
  /\ ct[c].pc = "key"
  /\ SetCt(c, [ct[c] EXCEPT !.pc = "parsed",
                            !.parsed = parseUsernameFromKey(ct[c].key)])
  /\ UNCHANGED <<store, topic, sseClients, obs, received, embeddingModel,
                 loads, external, nextReq, req, hub>>

NextKey ==
  \/ \E c \in Reads : KeyBuilt(c)
  \/ \E c \in Reads : KeyParsed(c)

SpecKey == InitKey /\ [][NextKey]_vars

\* ===================================================================
\* The key enumeration behind list: scanKeys (redis-dal.js 89-116) follows
\* the SCAN cursor, reads the hash of every key of every reply, and
\* getAllUsers (server.js 136-149) maps the items to user entries. The
\* store decides what each reply holds: any keys, repeated or not, and a
\* cursor that is 0 or not.
\* ===================================================================
\* the keys the store may name, and the hashes it holds for them
ScanNames == {getUserKeyText(<<"a">>, <<"a">>),
              getUserKeyText(<<"a", ":">>, <<"a">>)}

hGetAll(key) ==
  IF key = getUserKeyText(<<"a">>, <<"a">>)
    THEN [status |-> "red", message |-> "busy", icon |-> "coffee"]
    ELSE [status |-> "purple"]

RECURSIVE Batches(_)
Batches(n) ==
  IF n = 0 THEN {<<>>}
  ELSE Batches(n - 1) \cup
       {Append(b, k) : b \in {x \in Batches(n - 1) : Len(x) = n - 1},
                       k \in ScanNames}

\* scanKeys is entered: results = [], cursor = 0, the first SCAN is issued
IdleScan ==
  [pc |-> "scan", cursor |-> 0, replies |-> 0, keys |-> <<>>,
   results |-> <<>>, returned |-> <<>>, users |-> <<>>, resp |-> "none"]

ScanStart(c) ==
  /\ ct[c].pc = "idle"
  /\ SetCt(c, IdleScan)
  /\ UNCHANGED <<store, topic, sseClients, obs, received, embeddingModel,
                 loads, external, nextReq, req, hub>>

\* the entry getAllUsers builds for an item; value null gives the defaults
ItemEntry(item) ==
  [username |-> parseUsernameFromKey(item.key),
   status   |-> FieldOr(item.value, "status", "green"),
   message  |-> FieldOr(item.value, "message", ""),
   icon     |-> FieldOr(item.value, "icon", "circle")]

\* while (cursor !== 0) is tested after the body: scan again, or return the
\* results, which getAllUsers maps
AfterBatch(call) ==
  IF call.cursor # 0 THEN [call EXCEPT !.pc = "scan"]
  ELSE [call EXCEPT !.pc = "done", !.resp = "ok",
                    !.users = [i \in DOMAIN call.results |->
                                 ItemEntry(call.results[i])]]

\* a SCAN reply: cursor = reply.cursor, keys = reply.keys; with keys, one
\* getHash per key is issued
ScanReplied(c, cursor, keys) ==
  /\ ct[c].pc = "scan"
  /\ ct[c].replies < MaxReplies
  /\ cursor # 0 => ct[c].replies + 1 < MaxReplies
  /\ LET call == [ct[c] EXCEPT !.cursor = cursor, !.keys = keys,
                               !.replies = @ + 1,
                               !.returned = @ \o keys]
     IN SetCt(c, IF Len(keys) > 0 THEN [call EXCEPT !.pc = "hgetall"]
                 ELSE AfterBatch(call))
  /\ UNCHANGED <<store, topic, sseClients, obs, received, embeddingModel,
                 loads, external, nextReq, req, hub>>

\* client.scan rejects: scanKeys and the listing fail
ScanFailed(c) ==
  /\ ct[c].pc = "scan"
  /\ SetCt(c, [ct[c] EXCEPT !.pc = "done", !.resp = "error"])
  /\ UNCHANGED <<store, topic, sseClients, obs, received, embeddingModel,
                 loads, external, nextReq, req, hub>>

\* the value of a getHash: null when the read rejected (the catch) or the
\* hash is empty; null is written as the empty hash, which is what
\* getAllUsers takes for it (item.value || {})
getHashOrNull(key, ok) == IF ok THEN hGetAll(key) ELSE EmptyHash

\* a Promise.all over reads without their catch: one rejection rejects all
BatchReadRejects(c, failed) ==
  /\ ct[c].pc = "hgetall"
  /\ failed \subseteq DOMAIN ct[c].keys
  /\ SetCt(c, IF failed # {}
                 THEN [ct[c] EXCEPT !.pc = "done", !.resp = "error"]
                 ELSE AfterBatch(
                        [ct[c] EXCEPT !.results = @ \o
                           [i \in DOMAIN ct[c].keys |->
                              [key |-> ct[c].keys[i],
                               value |-> hGetAll(ct[c].keys[i])]]]))
  /\ UNCHANGED <<store, topic, sseClients, obs, received, embeddingModel,
                 loads, external, nextReq, req, hub>>

\* Promise.all settles; the reads at the positions in failed gave null; one
\* item per key is pushed, in the order of the reply
BatchRead(c, failed) ==
  /\ ct[c].pc = "hgetall"
  /\ failed \subseteq DOMAIN ct[c].keys
  /\ SetCt(c, AfterBatch(
                [ct[c] EXCEPT !.results = @ \o
                   [i \in DOMAIN ct[c].keys |->
                      [key |-> ct[c].keys[i],
                       value |-> getHashOrNull(ct[c].keys[i],
                                               i \notin failed)]]]))
  /\ UNCHANGED <<store, topic, sseClients, obs, received, embeddingModel,
                 loads, external, nextReq, req, hub>>

NextScan ==
  \/ \E c \in Reads : ScanStart(c)
  \/ \E c \in Reads, cursor \in {0, 17}, keys \in Batches(MaxBatchLen) :
       ScanReplied(c, cursor, keys)
  \/ \E c \in Reads : ScanFailed(c)
  \/ \E c \in Reads, failed \in SUBSET (1..MaxBatchLen) : BatchRead(c, failed)

SpecScan == Init /\ [][NextScan]_vars

\* ===================================================================
\* Order of writes and broadcasts: server.js updates of one username by
\* two overlapping requests, with observers. The write step also notes, in
\* the request, which requests had written and which had completed their
\* fan-out before it (wrote, fanned); no step of the program reads them.
\* ===================================================================
OrderInputs ==
  [username : {"redisboard-a"}, myUsername : {"redisboard-a"},
   status : {"red", "green", "purple"}, message : {NoValue}]

\* setHash resolved (as Persisted), noting the writes and fan-outs before it
PersistedNoting(r) ==
  /\ req[r].pc = "persist"
  /\ store' = [store EXCEPT ![ReqKey(r)] = hSet(@, StatusValue(r))]
  /\ Set(r, [req[r] EXCEPT
              !.pc = "publish", !.persisted = TRUE,
              !.wrote = {q \in Reqs : req[q].persisted},
              !.fanned = {q \in Reqs :
                            /\ req[q].published
                            /\ req[q].pc \in {"close", "catchclose", "done"}}])
  /\ UNCHANGED <<topic, sseClients, obs, received, embeddingModel, loads,
                 external, nextReq, hub, ct>>

NextOrder ==
  \/ \E r \in Reqs, in \in OrderInputs : UpdateStart(r, in)
  \/ \E r \in Reqs : Connected(r)
  \/ \E r \in Reqs : ConnectFailed(r)
  \/ \E r \in Reqs : PersistedNoting(r)
  \/ \E r \in Reqs : PersistFailed(r)
  \/ \E r \in Reqs : Published(r)
  \/ \E r \in Reqs : PublishFailed(r)
  \/ \E r \in Reqs : FanoutDone(r)
  \/ \E r \in Reqs, k \in 1..MaxObservers : FanoutThrew(r, k)
  \/ \E r \in Reqs : Closed(r)
  \/ \E r \in Reqs : CloseFailed(r)
  \/ \E r \in Reqs : CatchClosed(r)
  \/ \E o \in Observers : ObserverConnect(o)
  \/ \E o \in Observers : ObserverClose(o)

SpecOrder == Init /\ [][NextOrder]_vars

\* ===================================================================
\* The server with one subscriber connection per observer
\* (part_000 576-805): GET /api/updates adds the response to sseClients,
\* writes the greeting, awaits createRedisConnection and subscribe, records
\* the connection in the subscribers Map and only then installs the close
\* handler. obs[o] is the handler's position for observer o.
\* ===================================================================
SubUnchanged ==
  UNCHANGED <<store, embeddingModel, loads, nextReq, req, ct>>

\* GET /api/updates with credentials: up to the first await
SubConnect(o) ==
  /\ obs[o] = "new"
  /\ \A p \in Observers : p < o => obs[p] # "new"
  /\ sseClients' = Append(sseClients, o)
  /\ received' = [received EXCEPT ![o] = Append(@, ConnectedEvent)]
  /\ obs' = [obs EXCEPT ![o] = "connecting"]
  /\ hub' = [hub EXCEPT !.conn[o] = "connecting"]
  /\ UNCHANGED <<topic, external>>
  /\ SubUnchanged

\* createRedisConnection resolved; subscribe is issued on the new connection
SubConnected(o) ==
  /\ obs[o] = "connecting"
  /\ obs' = [obs EXCEPT ![o] = "subscribing"]
  /\ hub' = [hub EXCEPT !.conn[o] = "open"]
  /\ UNCHANGED <<topic, external, sseClients, received>>
  /\ SubUnchanged

\* createRedisConnection rejected: the catch block deletes the response;
\* subscriberClient is still null, nothing is closed
SubConnectFailed(o) ==
  /\ obs[o] = "connecting"
  /\ sseClients' = Remove(sseClients, o)
  /\ obs' = [obs EXCEPT ![o] = "rejected"]
  /\ hub' = [hub EXCEPT !.conn[o] = "null"]
  /\ UNCHANGED <<topic, external, received>>
  /\ SubUnchanged

\* redis.subscribe(subscriberClient, 'updates', handler) of this server's
\* data layer: SUBSCRIBE on the given connection, which from then on gets
\* the channel's messages
subscribe(h, o) == [h EXCEPT !.conn[o] = "subscribed"]

\* subscribe resolved: subscribers.set(res, subscriberClient), then
\* req.on('close', ...). A listener added after the event was emitted is
\* never called: for an observer that is gone the handler just ends.
SubSubscribed(o) ==
  /\ obs[o] = "subscribing"
  /\ obs' = [obs EXCEPT ![o] = "streaming"]
  /\ hub' = [subscribe(hub, o) EXCEPT !.subscribers = @ \cup {o}]
  /\ UNCHANGED <<topic, external, sseClients, received>>
  /\ SubUnchanged

\* subscribe rejected: the catch block deletes the response and issues
\* closeConnection on the subscriber
SubSubscribeFailed(o) ==
  /\ obs[o] = "subscribing"
  /\ sseClients' = Remove(sseClients, o)
  /\ obs' = [obs EXCEPT ![o] = "catchclose"]
  /\ UNCHANGED <<topic, external, received, hub>>
  /\ SubUnchanged

\* the catch block's closeConnection resolved
SubCatchClosed(o) ==
  /\ obs[o] = "catchclose"
  /\ obs' = [obs EXCEPT ![o] = "rejected"]
  /\ hub' = [hub EXCEPT !.conn[o] = "closed"]
  /\ UNCHANGED <<topic, external, sseClients, received>>
  /\ SubUnchanged

\* req.on('close'): sseClients.delete(res); subscribers.get/delete;
\* closeConnection is issued (the connection's later state: SubClosed)
SubCloseHandler(h, o) ==
  [h EXCEPT !.subscribers = @ \ {o}]

\* the observer's connection closes. The close handler runs only if it has
\* been installed, that is when the handler has passed both awaits.
SocketClose(o) ==
  /\ obs[o] \in {"connecting", "subscribing", "streaming"}
  /\ o \notin hub.gone
  /\ IF obs[o] = "streaming"
       THEN /\ sseClients' = Remove(sseClients, o)
            /\ obs' = [obs EXCEPT ![o] = "closing"]
            /\ hub' = [SubCloseHandler(hub, o) EXCEPT !.gone = @ \cup {o}]
       ELSE /\ hub' = [hub EXCEPT !.gone = @ \cup {o}]
            /\ UNCHANGED <<sseClients, obs>>
  /\ UNCHANGED <<topic, external, received>>
  /\ SubUnchanged

\* the close handler's closeConnection resolved
SubClosed(o) ==
  /\ obs[o] = "closing"
  /\ obs' = [obs EXCEPT ![o] = "closed"]
  /\ hub' = [hub EXCEPT !.conn[o] = "closed", !.pending[o] = <<>>]
  /\ UNCHANGED <<topic, external, sseClients, received>>
  /\ SubUnchanged

\* PUBLISH on 'updates' (an update-status request of any server process):
\* the store pushes the message to every subscribed connection
SubPublish ==
  /\ external < MaxExternal
  /\ external' = external + 1
  /\ topic' = Append(topic, TopicEntry(ExternalMessage(external + 1), 0))
  /\ hub' = [hub EXCEPT !.pending =
                [o \in Observers |->
                   IF hub.conn[o] = "subscribed" /\ obs[o] # "closing"
                     THEN Append(@[o], ExternalMessage(external + 1))
                     ELSE @[o]]]
  /\ UNCHANGED <<sseClients, obs, received>>
  /\ SubUnchanged

\* the subscription callback: res.write of the update event; a write to a
\* response whose connection has closed reaches nobody
SubMessage(o) ==
  /\ hub.pending[o] # <<>>
  /\ received' = [received EXCEPT ![o] =
                    IF o \in hub.gone THEN @
                    ELSE Append(@, [type |-> "update",
                                    message |-> Head(hub.pending[o]),
                                    src |-> 0])]
  /\ hub' = [hub EXCEPT !.pending[o] = Tail(@)]
  /\ UNCHANGED <<topic, external, sseClients, obs>>
  /\ SubUnchanged

NextSub ==
  \/ \E o \in Observers : SubConnect(o)
  \/ \E o \in Observers : SubConnected(o)
  \/ \E o \in Observers : SubConnectFailed(o)
  \/ \E o \in Observers : SubSubscribed(o)
  \/ \E o \in Observers : SubSubscribeFailed(o)
  \/ \E o \in Observers : SubCatchClosed(o)
  \/ \E o \in Observers : SocketClose(o)
  \/ \E o \in Observers : SubClosed(o)
  \/ SubPublish
  \/ \E o \in Observers : SubMessage(o)

SpecSub == Init /\ [][NextSub]_vars

\* ===================================================================
\* Properties
\* ===================================================================
\* the observers that hold a broadcast event of request r
Delivered(r) ==
  {o \in Observers : \E i \in DOMAIN received[o] : received[o][i].src = r}

\* how many broadcast events of source r observer o holds
Count(o, r) == Cardinality({i \in DOMAIN received[o] : received[o][i].src = r})

OnTopic(r) == \E i \in DOMAIN topic : topic[i].src = r

\* what the request body must satisfy, stated apart from the handler's code
RejectedInput(in) ==
  \/ in.myUsername \in {NoValue, ""}
  \/ in.status \notin {"red", "green", "purple"}

\* C1: an update whose status is not one of the three allowed values, or that
\* lacks myUsername or status, is answered with a validation error in the step
\* it arrives in, and that step opens no connection, writes no key, runs no
\* icon resolution (no model load), publishes nothing and delivers nothing;
\* the finished request never acts again, so the store keeps the prior record.
C1_RejectedBeforeSideEffects ==
  [][\A r \in Reqs :
       /\ (req[r].pc = "idle" /\ req'[r].pc # "idle" /\ RejectedInput(req'[r].in))
            => /\ req'[r].pc = "done"
               /\ req'[r].resp \in {"missing", "invalid"}
               /\ req'[r].client = "none"
               /\ req'[r].icon = NoValue
               /\ UNCHANGED <<store, topic, received, sseClients,
                              embeddingModel, loads, hub>>
       /\ (req[r].pc = "done" => req'[r] = req[r])]_vars

\* C1 witness: a request with status "yellow" was rejected while the store
\* held a record written before it
C1_Witness ==
  \E r \in Reqs :
    /\ req[r].pc = "done" /\ req[r].resp = "invalid"
    /\ req[r].in.status = "yellow"
    /\ store[getUserKey("redisboard-a", "a")] # EmptyHash

\* C2: publish and fan-out of an update happen only after its persistence
\* write succeeded; when the write fails nothing is published or delivered
\* for it, it is not attempted again and the caller gets the error.
C2_PersistBeforePublish ==
  \A r \in Reqs :
    /\ req[r].published => req[r].persisted
    /\ OnTopic(r) => req[r].persisted
    /\ Delivered(r) # {} => req[r].persisted /\ req[r].published
    /\ req[r].pc \in {"publish", "fanout", "close"} => req[r].persisted
    /\ req[r].failedAt = "persist"
         => /\ ~req[r].persisted /\ ~req[r].published
            /\ ~OnTopic(r) /\ Delivered(r) = {}
            /\ req[r].pc \in {"catchclose", "done"}
            /\ req[r].pc = "done" => req[r].resp = "error"

\* C2 witness: a persistence write failed with an observer registered, and
\* the request ended
C2_Witness ==
  \E r \in Reqs :
    /\ req[r].failedAt = "persist" /\ req[r].pc = "done"
    /\ sseClients # <<>>

\* C3 as claimed: whenever an update reports failure, it persisted nothing,
\* published nothing and delivered nothing.
C3_AllOrNothing ==
  \A r \in Reqs :
    (req[r].pc = "done" /\ req[r].resp # "ok")
      => /\ ~req[r].persisted
         /\ ~req[r].published
         /\ Delivered(r) = {}

\* C3 amended: a failure reported before the persistence write completed
\* (validation, connection, the write itself) leaves nothing persisted,
\* published or delivered; a failure reported after it leaves the record
\* persisted: after a failed publish nothing is published or delivered, after
\* a throwing observer write the message is published and delivered exactly
\* to the observers written before the throwing one, after a failed close the
\* message is published and the fan-out was completed.
C3_FailureAfterPersistKeepsRecord ==
  \A r \in Reqs :
    (req[r].pc = "done" /\ req[r].resp # "ok") =>
      /\ req[r].failedAt \in {"validate", "connect", "persist"}
           => ~req[r].persisted /\ ~OnTopic(r) /\ Delivered(r) = {}
      /\ req[r].failedAt = "publish"
           => /\ req[r].persisted /\ store[ReqKey(r)] # EmptyHash
              /\ ~OnTopic(r) /\ Delivered(r) = {}
      /\ req[r].failedAt = "fanout"
           => /\ req[r].persisted /\ store[ReqKey(r)] # EmptyHash
              /\ OnTopic(r) /\ Delivered(r) = Range(req[r].targets)
              /\ req[r].threw \notin Delivered(r)
      /\ req[r].failedAt = "close"
           => /\ req[r].persisted /\ store[ReqKey(r)] # EmptyHash
              /\ OnTopic(r) /\ Delivered(r) = Range(req[r].targets)
      /\ req[r].failedAt \in {"validate", "connect", "persist", "publish",
                              "fanout", "close"}

\* C3 witness: the publish failed after the record was persisted, the caller
\* was told the update failed, and an observer was registered
C3_Witness ==
  \E r \in Reqs :
    /\ req[r].pc = "done" /\ req[r].resp = "error"
    /\ req[r].failedAt = "publish" /\ req[r].persisted
    /\ store[ReqKey(r)].status = req[r].in.status
    /\ sseClients # <<>>

\* C4 as claimed, its upper half: for every write, no observer ever holds
\* more than one broadcast event of it (exactly one means never a duplicate),
\* whatever connect-test calls, subscribes, disconnects and writes came before.
C4_NeverADuplicate ==
  \A o \in Observers : \A r \in Reqs : Count(o, r) <= 1

\* C5 as claimed: the process holds at most one upstream subscription to
\* 'updates' (one subscriber connection, one registered handler) however many
\* connect calls are made, and SUBSCRIBE is never issued on a subscriber
\* connection whose connect has not resolved.
C5_SingleUpstreamSubscription ==
  /\ hub.subscriberConns <= 1
  /\ hub.handlers <= 1
  /\ ~hub.earlySubscribe

\* C6 as claimed, at the arrival of a message another process published on
\* 'updates': the message is handed to the process's upstream subscription or
\* written to every registered observer.
C6_UpstreamMessageDelivered ==
  [][(Len(topic') = Len(topic) + 1 /\ topic'[Len(topic')].src = 0)
       => \/ Len(hub'.inbox) = Len(hub.inbox) + 1
          \/ \A o \in Range(sseClients) :
               Len(received'[o]) = Len(received[o]) + 1]_vars

\* C7: a closed observer is out of the registry, the registry holds exactly
\* the open observers, each once, and a step writes to an observer's stream
\* only if the observer is registered and open after the step: nothing is
\* ever written to a closed or deregistered observer.
C7_NoDeliveryAfterClose ==
  /\ [](/\ Range(sseClients) = {o \in Observers : obs[o] = "open"}
        /\ Len(sseClients) = Cardinality(Range(sseClients)))
  /\ [][\A o \in Observers :
          received'[o] # received[o]
            => /\ obs'[o] = "open"
               /\ o \in Range(sseClients')
               /\ obs[o] # "closed"]_vars

\* C7 witness: an update was fanned out after an observer had closed, while
\* another one was registered and received it
C7_Witness ==
  \E r \in Reqs : \E o, p \in Observers :
    /\ req[r].pc = "done" /\ req[r].resp = "ok"
    /\ obs[o] = "closed" /\ Count(o, r) = 0
    /\ obs[p] = "open" /\ Count(p, r) = 1

\* C8 as claimed: in the fan-out step of an update, a write that throws
\* neither keeps the event from the other registered observers nor makes the
\* update fail.
C8_FanoutIsolatesFailures ==
  [][\A r \in Reqs :
       (req[r].pc = "fanout" /\ req'[r].pc # "fanout")
         => /\ req'[r].failedAt # "fanout"
            /\ \A o \in Range(sseClients) \ {req'[r].threw} :
                 Len(received'[o]) = Len(received[o]) + 1]_vars

\* C9 as claimed: calls that start before the first load has completed do
\* not invoke the model load again: at most one load is in flight.
C9_AtMostOneLoadInFlight ==
  Cardinality({r \in Reqs : req[r].pc = "load"}) <= 1

\* C10 as claimed: once the cached model instance is set it is never replaced
\* by a different instance.
C10_InstanceNeverReplaced ==
  [][embeddingModel # 0 => embeddingModel' = embeddingModel]_vars

\* ------------------------------------------------------- icon resolution
\* the request has a message that is absent, empty or only white space
BlankRequest(r) == req[r].in.message \in {NoValue, "", "  "}

\* icon resolution has returned to its caller
Resolved(r) ==
  \/ req[r].pc \in {"persist", "publish", "fanout", "close"}
  \/ req[r].persisted
  \/ Direct(r) /\ req[r].pc = "done"

\* the tenant of a request, from the principal or the argument it carries
TenantOf(r) ==
  IF Direct(r) THEN req[r].in.prefix
  ELSE CASE req[r].in.username = "redisboard-a" -> "a"
         [] req[r].in.username = "redisboard-b" -> "b"
         [] OTHER -> "guest"

\* the icon candidates loaded for each tenant
CandidatesOf(tenant) ==
  CASE tenant = "a" -> IconIndexes.a_lucide_icon_index
    [] tenant = "b" -> IconIndexes.b_lucide_icon_index
    [] OTHER -> {}

HasIndex(tenant) == tenant \in {"a", "b"}

\* C11: a request whose message is absent, empty or only white space gets the
\* default icon 'circle' without a model load, an embedding call or a
\* vector-index query, whether searchBestIcon is called on its own or reached
\* through update-status; the model is loaded only for non-blank messages.
C11_BlankMessageSkipsResolution ==
  /\ \A r \in Reqs :
       (req[r].pc # "idle" /\ BlankRequest(r)) =>
         /\ req[r].pc \notin {"load", "embed", "search"}
         /\ req[r].model = 0
         /\ req[r].query = NoQuery
         /\ ~req[r].iconError
         /\ Resolved(r) => req[r].icon = "circle"
  /\ loads <= Cardinality({r \in Reqs : req[r].pc # "idle" /\ ~BlankRequest(r)})

\* C11 witness: an update with a white-space message was stored with icon
\* 'circle', a direct call with an absent message returned, and the model
\* was never loaded
C11_Witness ==
  \E r, q \in Reqs :
    /\ IsUpdate(r) /\ req[r].in.message = "  "
    /\ req[r].pc = "done" /\ req[r].resp = "ok"
    /\ store[ReqKey(r)].icon = "circle" /\ store[ReqKey(r)].message = "  "
    /\ Direct(q) /\ req[q].in.message = NoValue
    /\ req[q].pc = "done" /\ req[q].icon = "circle"
    /\ loads = 0 /\ embeddingModel = 0

\* C12: a failure of the model load, of the embedding call or of the index
\* query (an absent index always fails the query) never reaches the caller
\* of searchBestIcon: the call returns 'circle', the update is not failed by
\* it, and the update's persistence write stores the record with icon
\* 'circle' and is followed by the publish of its change description.
C12_IconFailureDowngraded ==
  /\ [](\A r \in Reqs :
          /\ req[r].failedAt \notin {"load", "embed", "search"}
          /\ req[r].iconError
               => /\ req[r].icon = "circle"
                  /\ req[r].pc \notin {"idle", "connect", "load", "embed", "search"}
                  /\ req[r].failedAt \in {"none", "persist", "publish", "close"})
  /\ [][\A r \in Reqs :
          /\ (req[r].pc \in {"load", "embed", "search"}
                /\ req'[r].pc \notin {"load", "embed", "search"})
               => /\ req'[r].pc = AfterIcon(r)
                  /\ req'[r].failedAt = "none"
          /\ (req[r].pc = "search" /\ req'[r].pc # "search"
                /\ ~HasIndex(TenantOf(r)))
               => req'[r].iconError /\ req'[r].icon = "circle"
          /\ (req[r].iconError /\ ~req[r].persisted /\ req'[r].persisted)
               => /\ store'[ReqKey(r)].icon = "circle"
                  /\ store'[ReqKey(r)].status = req[r].in.status
                  /\ req'[r].pc = "publish"
          /\ (req[r].iconError /\ ~req[r].published /\ req'[r].published)
               => topic' = Append(topic, [msg |-> updateMessage(req[r].in),
                                          src |-> r])]_vars

\* C12 witness: an update of a principal without an icon index, and an update
\* whose model load or embedding call failed, were both stored with icon 'circle' and published
C12_Witness ==
  \E r, q \in Reqs :
    /\ IsUpdate(r) /\ req[r].in.username = "guest"
    /\ req[r].iconError /\ req[r].query.index = "guest_lucide_icon_index"
    /\ req[r].pc = "done" /\ req[r].resp = "ok"
    /\ store[ReqKey(r)].icon = "circle" /\ OnTopic(r)
    /\ IsUpdate(q) /\ req[q].iconError /\ req[q].query = NoQuery
    /\ req[q].pc = "done" /\ req[q].resp = "ok" /\ OnTopic(q)

\* C13: for a non-blank message, when the tenant's icon index exists and
\* holds no candidate, the step that ends the index query returns 'circle'
\* and fails neither the call nor the update.
C13_NoCandidateGivesDefault ==
  [][\A r \in Reqs :
       (req[r].pc = "search" /\ req'[r].pc # "search"
         /\ HasIndex(TenantOf(r)) /\ CandidatesOf(TenantOf(r)) = {})
       => /\ req'[r].icon = "circle"
          /\ req'[r].failedAt = "none"
          /\ req'[r].pc = AfterIcon(r)]_vars

\* C13 witness: tenant b, whose index is empty, updated with message
\* "coffee"; no step of the resolution failed and the record has 'circle'
C13_Witness ==
  \E r \in Reqs :
    /\ IsUpdate(r) /\ req[r].in.username = "redisboard-b"
    /\ req[r].in.message = "coffee"
    /\ req[r].query.index = "b_lucide_icon_index"
    /\ ~req[r].iconError
    /\ req[r].pc = "done" /\ req[r].resp = "ok"
    /\ store[ReqKey(r)].icon = "circle"

\* the name of the candidate of the tenant nearest to the message
IsNearest(tenant, message, name) ==
  \E d \in CandidatesOf(tenant) :
    /\ d.name = name
    /\ \A e \in CandidatesOf(tenant) :
         Distance(d.embedding, Embedding(message))
           <= Distance(e.embedding, Embedding(message))

\* C14: for a non-blank message, when no step of the resolution failed and
\* the tenant's icon index holds candidates, the query asked for one
\* neighbour (k = 1) of the index named after the caller's own prefix, the
\* call returned the name of the nearest candidate, and the update's
\* persistence write stores that name as the record's icon.
C14_NearestIconOfOwnIndex ==
  /\ [](\A r \in Reqs :
          /\ req[r].query # NoQuery
               => /\ req[r].query.k = 1
                  /\ req[r].query.vector = Embedding(req[r].in.message)
                  /\ TenantOf(r) = "a"
                       => req[r].query.index = "a_lucide_icon_index"
                  /\ TenantOf(r) = "b"
                       => req[r].query.index = "b_lucide_icon_index"
                  /\ TenantOf(r) = "guest"
                       => req[r].query.index = "guest_lucide_icon_index"
          /\ (req[r].pc # "idle" /\ Resolved(r) /\ ~BlankRequest(r)
               /\ ~req[r].iconError /\ CandidatesOf(TenantOf(r)) # {})
               => /\ req[r].query # NoQuery
                  /\ IsNearest(TenantOf(r), req[r].in.message, req[r].icon))
  /\ [][\A r \in Reqs :
          (~req[r].persisted /\ req'[r].persisted)
            => store'[ReqKey(r)].icon = req[r].icon]_vars

\* C14 witness: tenant a stored "home" for the message "house" and a direct
\* call for tenant a returned "coffee" for the message "coffee"
C14_Witness ==
  \E r, q \in Reqs :
    /\ IsUpdate(r) /\ req[r].in.username = "redisboard-a"
    /\ req[r].in.message = "house" /\ ~req[r].iconError
    /\ req[r].pc = "done" /\ req[r].resp = "ok"
    /\ store[ReqKey(r)].icon = "home"
    /\ Direct(q) /\ req[q].in.prefix = "a" /\ req[q].in.message = "coffee"
    /\ req[q].pc = "done" /\ req[q].icon = "coffee"

\* the persistence write of r follows a completed, accepted identical update
SecondIssue(r, q) ==
  /\ q # r /\ IsUpdate(r) /\ IsUpdate(q)
  /\ req[q].pc = "done" /\ req[q].resp = "ok"
  /\ req[q].in = req[r].in

\* the entries of the channel's log that request r published
PublishedBy(r) == {i \in DOMAIN topic : topic[i].src = r}

\* C16 as claimed: when an update identical to one that has completed is
\* issued again, its persistence write leaves the stored record as the first
\* issuance left it.
C16_SecondIssueChangesNothing ==
  [][\A r, q \in Reqs :
       (SecondIssue(r, q) /\ ~req[r].persisted /\ req'[r].persisted)
         => store' = store]_vars

\* C16 amended: the second issuance of an identical update leaves the stored
\* record as the first left it when icon resolution gave both the same icon
\* (always so for a blank message, and for a non-blank one when resolution
\* failed in neither or in both); status and message are always those of the
\* first issuance; two identical updates that both succeeded have published
\* exactly two events on the channel, with the same change description.
C16_SecondIssueSameIconChangesNothing ==
  /\ [][\A r, q \in Reqs :
          (SecondIssue(r, q) /\ ~req[r].persisted /\ req'[r].persisted)
            => /\ req[r].icon = req[q].icon => store' = store
               /\ store'[ReqKey(r)].status = store[ReqKey(r)].status
               /\ store'[ReqKey(r)].message = store[ReqKey(r)].message
               /\ \A k \in Keys \ {ReqKey(r)} : store'[k] = store[k]]_vars
  /\ [](\A r, q \in Reqs :
          (SecondIssue(r, q) /\ req[r].pc = "done" /\ req[r].resp = "ok")
            => /\ Cardinality(PublishedBy(r) \cup PublishedBy(q)) = 2
               /\ Len(topic) = 2
               /\ topic[1].msg = topic[2].msg)

\* C16 witness: tenant a issued the same update with message "coffee" twice,
\* both got the icon "coffee", both succeeded and two events were published
C16_Witness ==
  \E r, q \in Reqs :
    /\ SecondIssue(r, q) /\ req[r].pc = "done" /\ req[r].resp = "ok"
    /\ req[r].in.username = "redisboard-a" /\ req[r].in.message = "coffee"
    /\ req[r].icon = "coffee" /\ req[q].icon = "coffee"
    /\ store[ReqKey(r)].icon = "coffee"
    /\ Len(topic) = 2

\* ------------------------------------------------------ read handlers
\* the message an update supplies; an absent message is the empty text
SuppliedMessage(in) == IF in.message = NoValue THEN "" ELSE in.message

\* the key of (tenant, username) for the user a principal names itself
OwnKey(username) ==
  CASE username = "redisboard-a" -> <<"status", "a", "redisboard-a">>
    [] username = "redisboard-b" -> <<"status", "b", "redisboard-b">>

\* the requests whose persistence write on key k has completed
WritersOf(k) == {r \in Reqs : req[r].persisted /\ ReqKey(r) = k}

\* C15: the persistence write of an update leaves status and message of the
\* record equal to the update's inputs, no other step changes a record, and
\* the read of a connect-test returns status and message of the record as
\* stored; so a get after an update of the same (tenant, username), with no
\* write in between, returns the update's status and message. In states
\* where one update only has written the record a get has found, the get
\* holds exactly that update's status and message.
C15_UpdateThenGetRoundTrip ==
  /\ [][/\ \A r \in Reqs :
             (~req[r].persisted /\ req'[r].persisted)
               => /\ store'[ReqKey(r)].status = req[r].in.status
                  /\ store'[ReqKey(r)].message = SuppliedMessage(req[r].in)
        /\ \A k \in Keys :
             store'[k] # store[k]
               => \E r \in Reqs : /\ ~req[r].persisted /\ req'[r].persisted
                                  /\ ReqKey(r) = k
        /\ \A c \in Reads :
             (ct[c].pc = "read" /\ ct'[c].pc = "close"
               /\ store[OwnKey(ct[c].username)] # EmptyHash)
               => /\ ct'[c].found
                  /\ ct'[c].currentStatus.status
                       = store[OwnKey(ct[c].username)].status
                  /\ ct'[c].currentStatus.message
                       = store[OwnKey(ct[c].username)].message]_vars
  /\ [](\A c \in Reads : \A r \in Reqs :
          (/\ ct[c].pc \in {"close", "catchclose", "done"}
           /\ ct[c].kind = "connect-test" /\ ct[c].found
           /\ WritersOf(OwnKey(ct[c].username)) = {r})
          => /\ ct[c].currentStatus.status = req[r].in.status
             /\ ct[c].currentStatus.message = SuppliedMessage(req[r].in))

\* C15 witness: tenant a updated to purple with message "coffee", and a
\* connect-test of redisboard-a that followed answered purple, "coffee"
C15_Witness ==
  \E c \in Reads : \E r \in Reqs :
    /\ ct[c].pc = "done" /\ ct[c].resp = "ok" /\ ct[c].kind = "connect-test"
    /\ ct[c].username = "redisboard-a" /\ ct[c].found
    /\ req[r].pc = "done" /\ req[r].resp = "ok"
    /\ req[r].in.username = "redisboard-a"
    /\ req[r].in.status = "purple" /\ req[r].in.message = "coffee"
    /\ WritersOf(OwnKey("redisboard-a")) = {r}
    /\ ct[c].currentStatus.status = "purple"
    /\ ct[c].currentStatus.message = "coffee"

\* the namespace of a principal
OwnPrefix(username) ==
  CASE username = "redisboard-a" -> "a"
    [] username = "redisboard-b" -> "b"

OwnIconIndex(username) ==
  CASE username = "redisboard-a" -> "a_lucide_icon_index"
    [] username = "redisboard-b" -> "b_lucide_icon_index"

OwnStatusIndex(username) ==
  CASE username = "redisboard-a" -> "a_status_index"
    [] username = "redisboard-b" -> "b_status_index"

\* a read handler that has been entered
Entered(c) == ct[c].pc # "idle"

C19_GetAndListHaveNoEffect ==
  [][\A c \in Reads :
       (ct'[c] # ct[c] /\ ct'[c].kind \in {"connect-test", "list-users"})
         => UNCHANGED <<store, topic, received, sseClients, embeddingModel,
                        loads, req>>]_vars

\* C19 witness: a list-users has answered two records, written by updates
\* that were published, and the model was loaded by an update only
C19_Witness ==
  \E c \in Reads :
    /\ ct[c].pc = "done" /\ ct[c].resp = "ok" /\ ct[c].kind = "list-users"
    /\ Cardinality(ct[c].reads) = 2
    /\ Len(topic) = 2
    /\ loads <= Cardinality({r \in Reqs : IsUpdate(r)
                                           /\ req[r].in.message = "coffee"})

\* --------------------------------------------------------- the session
\* a users-on-map request of the workshop server
IsMap(r) == req[r].pc # "idle" /\ "map" \in DOMAIN req[r].in

\* an update-status request of the workshop server
IsHubUpdate(r) == req[r].pc # "idle" /\ "prefix" \in DOMAIN req[r].in

\* C18 as claimed: the prefix an operation runs under is that of the
\* principal that connected for the session and never changes: the cached
\* prefix, once set, stays; a map query runs on the index of its caller's
\* prefix; a write runs under the prefix of a principal that has called
\* connect-test.
C18_PrefixFixedBySession ==
  /\ [](\A r \in Reqs :
          /\ (IsMap(r) /\ req[r].query # NoQuery)
               => req[r].query.index = OwnStatusIndex(req[r].in.caller)
          /\ (IsHubUpdate(r) /\ req[r].persisted)
               => \E c \in Connects :
                    /\ ct[c].pc # "idle"
                    /\ ReqKey(r)[2] = OwnPrefix(ct[c].username))
  /\ [][hub.cachedPrefix # NoValue
          => hub'.cachedPrefix = hub.cachedPrefix]_vars

\* ------------------------------------------------------------- location
\* the request supplied a number for the coordinate
IsNumber(x) == x \in {"34.8", "32.1"}

\* C20 as claimed: a record has a location only if a write for it supplied
\* longitude and latitude together, it has one if a write supplied two
\* numbers, and a stored location is never partial: both of its parts are
\* numbers.
C20_LocationIffBothCoordinates ==
  \A k \in Keys :
    /\ "location" \in DOMAIN store[k]
         => \E r \in Reqs :
              /\ req[r].persisted /\ ReqKey(r) = k
              /\ Field(req[r].in, "longitude") # NoValue
              /\ Field(req[r].in, "latitude") # NoValue
    /\ (\E r \in Reqs :
          /\ req[r].persisted /\ ReqKey(r) = k
          /\ IsNumber(Field(req[r].in, "longitude"))
          /\ IsNumber(Field(req[r].in, "latitude")))
         => "location" \in DOMAIN store[k]
    /\ "location" \in DOMAIN store[k]
         => /\ store[k].location[1] = "POINT"
            /\ store[k].location[2] # "NaN"
            /\ store[k].location[3] # "NaN"

\* ------------------------------------------------------------ map query
\* the degrees a supplied coordinate stands for, in tenths
Denotes(x) ==
  CASE x = "35.0" -> 350
    [] x = "35"   -> 350
    [] x = "31"   -> 310
    [] x = "0"    -> 0

\* the updates with coordinates whose write on key k has completed
LocatorsOf(k) ==
  {q \in Reqs : /\ IsUpdate(q) /\ ~IsMap(q) /\ req[q].persisted
                /\ ReqKey(q) = k /\ HasCoordinates(req[q].in)}

\* a call of the map query that has returned a result
MapReturned(r) == IsMap(r) /\ req[r].pc = "done" /\ req[r].resp = "ok"

\* C21: a stored location is the literal POINT(longitude latitude) of a
\* completed write, longitude first; the polygon literal of a map query has
\* the vertices of the boundary ring in their order, each longitude first;
\* and an entry the map query returns carries as longitude and latitude what
\* the write supplied as longitude and latitude.
C21_PointAndPolygonKeepAxisOrder ==
  /\ \A k \in Keys :
       "location" \in DOMAIN store[k]
         => /\ store[k].location[1] = "POINT"
            /\ \E q \in LocatorsOf(k) :
                 /\ Tenths(store[k].location[2]) = Denotes(req[q].in.longitude)
                 /\ Tenths(store[k].location[3]) = Denotes(req[q].in.latitude)
  /\ \A r \in Reqs :
       IsMap(r)
         => LET ring  == Boundaries[req[r].in.boundary]
                shape == req[r].query.shape
            IN /\ shape[1] = "POLYGON"
               /\ Len(shape[2]) = Len(ring)
               /\ \A i \in DOMAIN ring :
                    /\ Tenths(shape[2][i][1]) = Tenths(ring[i][1])
                    /\ Tenths(shape[2][i][2]) = Tenths(ring[i][2])
  /\ \A r \in Reqs :
       MapReturned(r)
         => \A e \in req[r].users :
              \E q \in LocatorsOf(<<"status", "a", e.username>>) :
                /\ Tenths(e.longitude) = Denotes(req[q].in.longitude)
                /\ Tenths(e.latitude) = Denotes(req[q].in.latitude)

\* a map query returned the record of a write that supplied longitude 35.0
\* and latitude 31
C21_Witness ==
  \E r, q \in Reqs :
    /\ MapReturned(r)
    /\ q \in LocatorsOf(<<"status", "a", "redisboard-a">>)
    /\ req[q].in.longitude = "35.0" /\ req[q].in.latitude = "31"
    /\ \E e \in req[r].users : e.longitude = "35" /\ e.latitude = "31"

\* the point an update supplied lies inside a boundary
SuppliedInside(q, boundary) ==
  Inside(<<Denotes(req[q].in.longitude), Denotes(req[q].in.latitude)>>,
         [i \in DOMAIN Boundaries[boundary] |->
            <<Tenths(Boundaries[boundary][i][1]),
              Tenths(Boundaries[boundary][i][2])>>])

\* the keys of the tenant of a principal
TenantKeys(username) == {k \in Keys : k[2] = OwnPrefix(username)}

\* a call of getStatusesWithLocation answers with exactly the records of
\* the caller's tenant whose supplied point is inside the boundary
MapAnswerIsExact ==
  [][\A r \in Reqs :
       (req[r].pc = "mapquery" /\ req'[r].resp = "ok")
         => \A k \in TenantKeys(req[r].in.caller) :
              LET returned == \E e \in req'[r].users : e.username = k[3]
                  boundary == req[r].in.boundary
              IN /\ returned
                      => \E q \in LocatorsOf(k) : SuppliedInside(q, boundary)
                 /\ (/\ LocatorsOf(k) # {}
                     /\ \A q \in LocatorsOf(k) : SuppliedInside(q, boundary))
                      => returned]_vars

\* list-users answers with every record that exists, wherever it is
ListAnswerIsComplete ==
  [][\A c \in Reads :
       /\ (ct[c].pc = "scan" /\ ct'[c].pc \in {"hgetall", "close"})
            => ct'[c].keys = {k \in Keys : store[k] # EmptyHash}
       /\ (ct[c].pc = "hgetall" /\ ct'[c].pc = "close")
            => \A k \in ct[c].keys :
                 \E e \in ct'[c].users : e.username = k[3]]_vars

\* a users-on-map request that has its connection, made when a record with
\* a point inside the country is stored, runs its search
MapRequestSearches ==
  [][\A c \in Reads :
       (/\ Entered(c) /\ ct[c].kind = "users-on-map"
        /\ ct[c].pc = "connect" /\ ct'[c].client = "open"
        /\ \E k \in TenantKeys(ct[c].username) :
             \E q \in LocatorsOf(k) : SuppliedInside(q, "country"))
         => ct'[c].pc # "catchclose"]_vars

\* C22 as claimed: the map query returns a record exactly when the point
\* supplied for it, a coordinate 0 included, lies inside the boundary, and
\* list returns the record wherever the point lies.
C22_MapReturnsExactlyThePointsInside ==
  /\ MapAnswerIsExact
  /\ ListAnswerIsComplete
  /\ MapRequestSearches

\* a record of key k exists and no completed write supplied a location for it
NeverLocated(k) == store[k] # EmptyHash /\ LocatorsOf(k) = {}

\* C23: when a map query answers, whatever its boundary, no record that
\* exists without a location ever having been written for it is in the
\* answer, and every entry of an answer carries a longitude and a latitude;
\* the users-on-map handler of server.js never lists such a record either.
C23_NeverLocatedNeverOnMap ==
  /\ [][\A r \in Reqs :
          (req[r].pc = "mapquery" /\ req'[r].resp = "ok")
            => \A k \in TenantKeys(req[r].in.caller) :
                 NeverLocated(k)
                   => ~\E e \in req'[r].users : e.username = k[3]]_vars
  /\ [](\A r \in Reqs :
          MapReturned(r)
            => \A e \in req[r].users :
                 e.longitude # NoValue /\ e.latitude # NoValue)
  /\ [](\A c \in Reads :
          (Entered(c) /\ ct[c].kind = "users-on-map") => ct[c].users = {})

\* a map query of tenant a answered, with an empty result and no error, while
\* the tenant's only record had no location
C23_Witness ==
  \E r \in Reqs :
    /\ MapReturned(r) /\ req[r].in.caller = "redisboard-a"
    /\ NeverLocated(<<"status", "a", "redisboard-a">>)
    /\ req[r].users = {}

\* C24 as claimed: a map query whose spatial index does not exist answers
\* with an empty result and no error, in the users-on-map handler and in
\* getStatusesWithLocation alike; a failed call to the store is answered
\* with an error.
C24_MissingIndexGivesEmptyResult ==
  /\ \A c \in Reads :
       (Entered(c) /\ ct[c].kind = "users-on-map" /\ ct[c].pc = "done")
         => IF ct[c].error = "store"
              THEN ct[c].resp = "error"
              ELSE ct[c].index \notin DOMAIN StatusIndexes
                     => ct[c].resp = "ok" /\ ct[c].users = {}
  /\ \A r \in Reqs :
       (IsMap(r) /\ req[r].pc = "done")
         => IF req[r].failedAt = "mapquery"
              THEN req[r].resp = "error"
              ELSE req[r].query.index \notin DOMAIN StatusIndexes
                     => req[r].resp = "ok" /\ req[r].users = {}

\* ------------------------------------------------------- the stored record
\* request r's write to the store completes in this step
Persists(r) == req[r].pc = "persist" /\ req'[r].pc = "publish"

\* C25 as claimed: the write of an accepted update leaves status and message
\* as supplied, the icon resolved for this write ('circle' without a
\* message), and a location only if this write supplied one.
C25_WriteReplacesWholeRecord ==
  [][\A r \in Reqs :
       Persists(r)
         => LET k == ReqKey(r) IN
              /\ store'[k].status = req[r].in.status
              /\ store'[k].message = SuppliedMessage(req[r].in)
              /\ store'[k].icon = req[r].icon
              /\ Falsy(req[r].in.message) => store'[k].icon = "circle"
              /\ "location" \in DOMAIN store'[k] <=> HasCoordinates(req[r].in)]_vars

\* C25 as amended: status, message and icon are those of this write; the
\* location is that of this write when it supplied coordinates, and
\* otherwise the record keeps the location it had, or stays without one.
C25_WriteReplacesAllButAnOmittedLocation ==
  [][\A r \in Reqs :
       Persists(r)
         => LET k == ReqKey(r) IN
              /\ DOMAIN store'[k] \subseteq {"status", "message", "icon", "location"}
              /\ store'[k].status = req[r].in.status
              /\ store'[k].message = SuppliedMessage(req[r].in)
              /\ store'[k].icon = req[r].icon
              /\ Falsy(req[r].in.message) => store'[k].icon = "circle"
              /\ HasCoordinates(req[r].in)
                   => /\ "location" \in DOMAIN store'[k]
                      /\ Tenths(store'[k].location[2]) = Denotes(req[r].in.longitude)
                      /\ Tenths(store'[k].location[3]) = Denotes(req[r].in.latitude)
              /\ ~HasCoordinates(req[r].in)
                   => /\ "location" \in DOMAIN store'[k] <=> "location" \in DOMAIN store[k]
                      /\ "location" \in DOMAIN store[k]
                           => store'[k].location = store[k].location]_vars

\* a write with a message and coordinates was followed by a write of another
\* status without either: the record has the second status, no message, the
\* default icon, and still the location
C25_Witness ==
  \E q, r \in Reqs :
    /\ IsUpdate(q) /\ req[q].persisted /\ IsUpdate(r) /\ req[r].persisted
    /\ req[q].in.message = "coffee" /\ req[q].icon = "coffee"
    /\ HasCoordinates(req[q].in)
    /\ req[r].in.message = NoValue /\ ~HasCoordinates(req[r].in)
    /\ req[r].in.status # req[q].in.status
    /\ LET k == ReqKey(r) IN
         /\ store[k].status = req[r].in.status
         /\ store[k].message = ""
         /\ store[k].icon = "circle"
         /\ "location" \in DOMAIN store[k]

\* ------------------------------------------------- the change description
\* the word for a status of the enum
StatusWord(status) ==
  CASE status = "red"    -> "Busy"
    [] status = "green"  -> "Available"
    [] status = "purple" -> "Away"

\* what the description of an update with body in has to be
Describes(d, in) ==
  IF Field(in, "longitude") # NoValue /\ Field(in, "latitude") # NoValue
    THEN d.tpl = "location" /\ d.user = in.myUsername
  ELSE IF in.message \notin {NoValue, ""}
    THEN /\ d.tpl = "status_message" /\ d.user = in.myUsername
         /\ d.text = StatusWord(in.status) /\ d.message = in.message
    ELSE /\ d.tpl = "status" /\ d.user = in.myUsername
         /\ d.text = StatusWord(in.status)

\* C26: every description an update published on the channel or pushed to an
\* observer is 'User <name> location updated' when the update supplied both
\* coordinates, else 'User <name> status is <word>: <message>' when its
\* message is non-empty, else 'User <name> status is <word>', with Busy for
\* red, Available for green and Away for purple; none contains 'Unknown'.
C26_DescriptionFollowsTheRules ==
  /\ \A i \in DOMAIN topic :
       topic[i].src \in Reqs
         => /\ Describes(topic[i].msg, req[topic[i].src].in)
            /\ topic[i].msg.text # "Unknown"
  /\ \A o \in Observers : \A i \in DOMAIN received[o] :
       received[o][i].src \in Reqs
         => /\ Describes(received[o][i].message, req[received[o][i].src].in)
            /\ received[o][i].message.text # "Unknown"

\* the channel holds a location description and a description with the
\* word Busy and a message
C26_Witness ==
  \E i, j \in DOMAIN topic :
    /\ topic[i].src \in Reqs /\ topic[i].msg.tpl = "location"
    /\ req[topic[i].src].in.message = "coffee"
    /\ topic[j].src \in Reqs /\ topic[j].msg.tpl = "status_message"
    /\ topic[j].msg.text = "Busy" /\ topic[j].msg.message = "coffee"

\* --------------------------------------------------- concurrent updates
\* C27: nothing orders the writes of two updates to one username: a request
\* that has reached its write can always perform it, whatever the requests
\* that arrived before it are doing, and the write puts its own status in
\* the record whatever is stored; so the update that arrived first, kept
\* back by its icon resolution, can write last and win.
C27_WritesAreNotSerialized ==
  /\ [](\A r \in Reqs : req[r].pc = "persist" => ENABLED Persisted(r))
  /\ [][\A r \in Reqs :
          Persists(r) => store'[ReqKey(r)].status = req[r].in.status]_vars

\* update 1 arrived first with a message and resolved its icon, update 2 for
\* the same username arrived second without a message; both have written and
\* the record is that of update 1, so update 2 wrote first
C27_Witness ==
  /\ IsUpdate(1) /\ IsUpdate(2)
  /\ req[1].persisted /\ req[2].persisted
  /\ ReqKey(1) = ReqKey(2)
  /\ req[1].in.message = "coffee" /\ req[1].query # NoQuery
  /\ req[2].in.message = NoValue
  /\ req[1].in.status # req[2].in.status
  /\ store[ReqKey(1)].status = req[1].in.status
  /\ store[ReqKey(1)].message = "coffee"
  /\ store[ReqKey(1)].icon = req[1].icon /\ req[1].icon = "coffee"

\* ------------------------------------------------------------ no replay
\* the fan-out of request r is over
FannedOut(r) ==
  req[r].published /\ req[r].pc \in {"close", "catchclose", "done"}

\* C28: a broadcast is not kept and not replayed: once the fan-out of a
\* write is over, an observer that does not hold its message never gets it,
\* and the step that registers an observer hands it the greeting only.
C28_NoReplayAfterFanout ==
  [][\A o \in Observers :
       /\ \A r \in Reqs :
            (FannedOut(r) /\ Count(o, r) = 0) => Count(o, r)' = 0
       /\ (obs[o] = "new" /\ obs'[o] = "open")
            => received'[o] = Append(received[o], ConnectedEvent)]_vars

\* an update was delivered to the observers of its fan-out and answered;
\* an observer that was not among them is registered now and holds the
\* greeting only
C28_Witness ==
  \E r \in Reqs, o \in Observers :
    /\ req[r].pc = "done" /\ req[r].resp = "ok" /\ FannedOut(r)
    /\ Len(req[r].targets) > 0
    /\ \A i \in DOMAIN req[r].targets : req[r].targets[i] # o
    /\ obs[o] = "open"
    /\ received[o] = <<ConnectedEvent>>

\* ------------------------------------------------- observer life cycle
\* how often observer o occurs in the registry
Occurrences(clients, o) ==
  Cardinality({i \in DOMAIN clients : clients[i] = o})

\* C29: an observer goes Registered -> Deregistered and nowhere else: it
\* enters the registry in the step that opens its stream and only there,
\* once; it leaves in the step that closes the stream and only there; and a
\* deregistered observer stays deregistered.
C29_RegisteredThenDeregistered ==
  [][\A o \in Observers :
       /\ obs'[o] # obs[o]
            => <<obs[o], obs'[o]>> \in {<<"new", "open">>, <<"open", "closed">>}
       /\ (Occurrences(sseClients, o) = 0 /\ Occurrences(sseClients', o) > 0)
            <=> (obs[o] = "new" /\ obs'[o] = "open")
       /\ (Occurrences(sseClients, o) > 0 /\ Occurrences(sseClients', o) = 0)
            <=> (obs[o] = "open" /\ obs'[o] = "closed")
       /\ Occurrences(sseClients', o) <= 1
       /\ obs[o] = "closed" => Occurrences(sseClients', o) = 0]_vars

\* an observer was registered (it holds the greeting) and is deregistered,
\* and a later observer has registered since
C29_Witness ==
  \E o, p \in Observers :
    /\ o < p
    /\ obs[o] = "closed" /\ Occurrences(sseClients, o) = 0
    /\ Len(received[o]) > 0 /\ received[o][1] = ConnectedEvent
    /\ obs[p] = "open" /\ Occurrences(sseClients, p) = 1

\* ------------------------------------- one subscriber per observer
\* the handler of observer o has ended and no clean-up of it is under way
SubSettled(o) == obs[o] \in {"streaming", "closed", "rejected"}

\* C30 as claimed: an observer whose connection has closed, at whatever
\* point of the handler, ends up out of the observer set with its
\* subscriber connection closed: once nothing of its handler remains to
\* run, it is in neither sseClients nor subscribers and its connection is
\* not open.
C30_GoneObserverIsCleanedUp ==
  \A o \in hub.gone :
    SubSettled(o)
      => /\ Occurrences(sseClients, o) = 0
         /\ o \notin hub.subscribers
         /\ hub.conn[o] \notin {"open", "subscribed"}

\* ------------------------------------------------- fan-out atomicity
\* the observers whose stream got an event in the step
Written == {o \in Observers : received'[o] # received[o]}

\* C31 as claimed: the fan-out of one message is one step in which the
\* registry does not change, and the observers that receive the message in
\* it are exactly the observers registered when it starts.
C31_FanoutReachesTheRegistry ==
  [][\A r \in Reqs :
       (req[r].pc = "fanout" /\ req'[r].pc # "fanout")
         => /\ sseClients' = sseClients /\ obs' = obs
            /\ Written = Range(sseClients)
            /\ \A o \in Written :
                 received'[o] = Append(received[o], SseEvent(r))]_vars

\* ----------------------------------------------------- greeting first
\* C32: on every observer's stream the 'connected' event is the first
\* event and only the first: nothing is written to a stream that has not
\* been opened, and no update event precedes the greeting.
C32_ConnectedEventComesFirst ==
  \A o \in Observers :
    /\ obs[o] = "new" => received[o] = <<>>
    /\ obs[o] # "new" => Len(received[o]) >= 1
    /\ \A i \in DOMAIN received[o] :
         (i = 1) <=> (received[o][i].type = "connected")

\* an observer opened its stream while an update was between its write and
\* its fan-out, and holds the greeting followed by that update's event
C32_Witness ==
  \E o \in Observers, r \in Reqs :
    /\ Len(received[o]) >= 2
    /\ received[o][1] = ConnectedEvent
    /\ received[o][2].type = "update" /\ received[o][2].src = r
    /\ \E p \in Observers : p < o /\ Count(p, r) = 1

\* ------------------------------------------- write and broadcast order
\* the positions of the events of request r on the stream of observer o
EventsOf(o, r) == {i \in DOMAIN received[o] : received[o][i].src = r}

\* on every stream, the events of r come before the events of q
Precedes(r, q) ==
  \A o \in Observers : \A i \in EventsOf(o, r), j \in EventsOf(o, q) : i < j

\* two accepted updates of one record
SameRecord(r, q) ==
  /\ r # q /\ IsUpdate(r) /\ IsUpdate(q)
  /\ req[r].in.myUsername = req[q].in.myUsername
  /\ ReqPrefix(r) = ReqPrefix(q)

\* the last update event on the stream of o is of request q
LastHeard(o, q) ==
  /\ EventsOf(o, q) # {}
  /\ \A r \in Reqs \ {q} : \A i \in EventsOf(o, r), j \in EventsOf(o, q) : i < j

\* the record stored for the username of q is the one q wrote
StoredIs(q) ==
  /\ Field(store[ReqKey(q)], "status") = req[q].in.status
  /\ Field(store[ReqKey(q)], "message") = MessageOrEmpty(req[q].in.message)

\* C33 as claimed: the descriptions of two updates of one username reach
\* every stream in the order of the writes, and the last description a
\* stream holds describes the stored record.
C33_BroadcastInWriteOrder ==
  \A q \in Reqs : \A r \in req[q].wrote :
    SameRecord(r, q)
      => /\ Precedes(r, q)
         /\ \A o \in Observers :
              (LastHeard(o, r) /\ req[q].pc = "done") => StoredIs(r)

\* C33 amended: the order is kept between updates that do not overlap: when
\* q writes after the fan-out of r is over, the description of r precedes
\* the description of q on every stream; and a stream whose last
\* description is of q holds the description of the stored record when
\* every other write to the record was broadcast before q wrote.
C33_OrderKeptWithoutOverlap ==
  \A q \in Reqs :
    /\ \A r \in req[q].fanned : SameRecord(r, q) => Precedes(r, q)
    /\ \A o \in Observers :
         ( /\ LastHeard(o, q)
           /\ \A r \in Reqs \ {q} :
                (SameRecord(r, q) /\ req[r].persisted) => r \in req[q].fanned )
           => StoredIs(q)

\* update 1 was written, broadcast and answered before update 2, with
\* another status, was written; an observer holds both descriptions in that
\* order and the record is that of update 2
C33_Witness ==
  \E o \in Observers :
    /\ IsUpdate(1) /\ IsUpdate(2) /\ SameRecord(1, 2)
    /\ 1 \in req[2].fanned
    /\ req[1].in.status # req[2].in.status
    /\ EventsOf(o, 1) # {} /\ LastHeard(o, 2)
    /\ req[2].pc = "done" /\ StoredIs(2)

\* ------------------------------------------------------ stored icons
\* the icon names a record of the tenant may carry
IconNamesOf(tenant) == {"circle"} \cup {d.name : d \in CandidatesOf(tenant)}

\* C34: every stored record has an icon, and it is 'circle' or the name of
\* a candidate of the icon index of the tenant the record belongs to: never
\* the empty text, never 'undefined', never a name that only another
\* tenant's index holds.
C34_StoredIconIsDefaultOrOwnCandidate ==
  \A k \in Keys :
    store[k] # EmptyHash
      => /\ "icon" \in DOMAIN store[k]
         /\ store[k].icon \in IconNamesOf(k[2])
         /\ store[k].icon \notin {"", NoValue}

\* the same message was stored by tenant a with the name of its nearest
\* candidate and by tenant b, whose index is empty, with the default
C34_Witness ==
  \E r, q \in Reqs :
    /\ IsUpdate(r) /\ IsUpdate(q)
    /\ TenantOf(r) = "a" /\ TenantOf(q) = "b"
    /\ req[r].in.message = "coffee" /\ req[q].in.message = "coffee"
    /\ req[r].persisted /\ req[q].persisted
    /\ store[ReqKey(r)].icon = "coffee"
    /\ store[ReqKey(q)].icon = "circle"

\* --------------------------------------------------- failed model load
\* request r leaves its model load with the failure caught
LoadFails(r) ==
  req[r].pc = "load" /\ req'[r].pc # "load" /\ req'[r].iconError

\* request r enters the icon resolution with a non-blank message
EntersResolution(r) ==
  req[r].pc \in {"idle", "connect"} /\ req'[r].pc \in {"load", "embed"}

\* C35: a model load that fails leaves the cached instance as it was, so an
\* empty cache stays empty, and the failing call goes on with the default
\* icon; and every call that enters the resolution while the cache is empty
\* starts a load of its own, whatever failed before it.
C35_FailedLoadIsRetried ==
  [][\A r \in Reqs :
       /\ LoadFails(r)
            => /\ embeddingModel' = embeddingModel
               /\ req'[r].icon = "circle"
               /\ req'[r].pc = AfterIcon(r)
               /\ req'[r].query = NoQuery
       /\ (EntersResolution(r) /\ embeddingModel = 0)
            => /\ req'[r].pc = "load"
               /\ loads' = loads + 1
               /\ req'[r].model = loads'
       /\ (EntersResolution(r) /\ embeddingModel # 0)
            => req'[r].pc = "embed" /\ loads' = loads]_vars

\* the first call failed in its load and got the default; the second call
\* loaded the model again and resolved the icon of its message
C35_Witness ==
  /\ req[1].pc = "done" /\ req[1].iconError /\ req[1].model = 1
  /\ req[1].query = NoQuery /\ req[1].icon = "circle"
  /\ req[2].pc = "done" /\ req[2].model = 2 /\ ~req[2].iconError
  /\ embeddingModel = 2 /\ loads = 2
  /\ req[2].icon = "coffee"

\* ------------------------------------------- request-scoped connections
\* the handlers that have answered
AnsweredUpdates == {r \in Reqs : req[r].pc = "done"}
AnsweredReads   == {c \in Reads : ct[c].pc = "done"}

HasColon(text) == \E i \in DOMAIN text : text[i] = ":"

Scans == {c \in Reads : ct[c].pc # "idle"}

\* C38: the enumeration issues no SCAN after a reply with cursor 0 and
\* returns when that reply is handled; its result has one entry for every
\* key of every reply, repeated keys included, in the order the store gave
\* them; a key whose read gave nothing has the empty value and the default
\* fields; and a failed read never fails the listing.
C38_ScanFollowsCursorAndKeepsEveryKey ==
  /\ [](\A c \in Scans :
          /\ ct[c].pc = "scan" => (ct[c].replies = 0 \/ ct[c].cursor # 0)
          /\ ct[c].resp = "ok"
               => /\ ct[c].cursor = 0 /\ ct[c].replies > 0
                  /\ Len(ct[c].users) = Len(ct[c].returned)
                  /\ \A i \in DOMAIN ct[c].returned :
                       /\ ct[c].results[i].key = ct[c].returned[i]
                       /\ ct[c].results[i].value
                            \in {EmptyHash, hGetAll(ct[c].returned[i])}
                       /\ ct[c].users[i].username
                            = parseUsernameFromKey(ct[c].returned[i])
                       /\ ct[c].results[i].value = EmptyHash
                            => /\ ct[c].users[i].status = "green"
                               /\ ct[c].users[i].message = ""
                               /\ ct[c].users[i].icon = "circle")
  /\ [][\A c \in Scans :
          /\ (ct[c].pc = "hgetall" /\ ct'[c].pc # "hgetall")
               => /\ ct'[c].resp # "error"
                  /\ Len(ct'[c].results)
                       = Len(ct[c].results) + Len(ct[c].keys)
                  /\ ct'[c].pc = IF ct[c].cursor = 0 THEN "done" ELSE "scan"
          /\ (ct[c].pc = "scan" /\ ct'[c].pc = "done" /\ ct'[c].resp = "ok")
               => ct'[c].cursor = 0 /\ ct'[c].keys = <<>>]_vars

\* the store gave an empty reply with a cursor and then the same key twice
\* with cursor 0; the first read gave nothing: the listing has two entries
\* for the key, the first with the defaults
C38_Witness ==
  \E c \in Scans :
    /\ ct[c].pc = "done" /\ ct[c].resp = "ok" /\ ct[c].replies = 2
    /\ Len(ct[c].users) = 2
    /\ ct[c].returned[1] = ct[c].returned[2]
    /\ ct[c].results[1].value = EmptyHash
    /\ ct[c].users[1].status = "green"
    /\ ct[c].users[2].status = "red"
    /\ ct[c].users[1].username = ct[c].users[2].username

=============================================================================
